---- MODULE Spec2Model ----
(***************************************************************************)
(* Verification model of bpp-popgen.                                       *)
(*                                                                         *)
(* Part 1: PolymorphismMultiGContainerTools, the permutation engine        *)
(* (src/src/Bpp/PopGen/PolymorphismMultiGContainerTools.cpp).              *)
(*                                                                         *)
(* A collection (PolymorphismMultiGContainer) is a sequence of records     *)
(* [grp, gen]: the group id of the record and its multilocus genotype, a   *)
(* sequence with one monolocus genotype per locus.  A monolocus genotype   *)
(* is the sequence of its allele indices; the missing genotype (a null     *)
(* entry of MultilocusGenotype) is the empty sequence.                     *)
(*                                                                         *)
(* Every operation is a function of the input collection, the group-id set *)
(* and the outcomes of std::shuffle; an operator named after the operation *)
(* gives the set of the results it can produce, and the action that calls  *)
(* the operation picks one of them.                                        *)
(***************************************************************************)
EXTENDS Integers, Sequences, FiniteSets, TLC

VARIABLES pmgc,    \* the input collection handed to the operation
          groups,  \* the group-id set handed to the operation
          names,   \* the group names of the input collection
          op,      \* the operation that was called ("none" before the call)
          res,     \* what the call produced (see Result)
          dataset, \* a DataSet object (Part 2)
          call,    \* the last call on the DataSet and what it gave (Part 2)
          stat     \* the call of a sequence statistic in progress (Part 3)

permVars == <<pmgc, groups, names, op, res>>

dsVars == <<dataset, call>>

statVars == <<stat>>

(***************************************************************************)
(* Bounds of the model.                                                    *)
(***************************************************************************)
MaxRecords == 2                 \* records in the input collection

LociCounts == {1, 2}            \* numbers of loci of the input collection
GroupIds   == {1, 2, 3}         \* group ids records carry
GroupSets  == SUBSET {1, 2}     \* group-id sets handed to the operations
AlleleIds  == {1, 2}            \* allele indices in use at a locus

(***************************************************************************)
(* Data model.                                                             *)
(***************************************************************************)
Missing == <<>>

MonoAlleleMonolocusGenotype(a) == <<a>>

BiAlleleMonolocusGenotype(a, b) == <<a, b>>

\* The genotypes input records carry at a locus: missing, one allele, two
\* alleles.
MonolocusGenotypes ==
  {Missing, MonoAlleleMonolocusGenotype(1), BiAlleleMonolocusGenotype(1, 2)}

\* new MultilocusGenotype(locNum): every locus unset.
MultilocusGenotype(locNum) == [j \in 1..locNum |-> Missing]

\* A MultilocusGenotype handle that holds no object (a moved-from
\* unique_ptr).  Real genotype vectors of the model have at least one locus.
NoGenotype == <<>>

Records(locNum) == [grp : GroupIds, gen : [1..locNum -> MonolocusGenotypes]]

\* The well-formed input collections: every record has one genotype entry
\* per locus of the collection.
Collections ==
  UNION {[1..n -> Records(l)] : n \in 0..MaxRecords, l \in LociCounts}

\* PolymorphismMultiGContainer::getNumberOfLoci: the size of the first
\* multilocus genotype, 0 for an empty collection.
getNumberOfLoci(c) == IF Len(c) = 0 THEN 0 ELSE Len(c[1].gen)

isMonolocusGenotypeMissing(mg, j) == mg[j] = Missing

(***************************************************************************)
(* The result of a call: status "ok" (returned) or "crash" (undefined      *)
(* behaviour was executed and the call did not return); alloc tells        *)
(* whether the returned unique_ptr holds a collection, recs are its        *)
(* records, shuf the lists std::shuffle returned, in call order; indet     *)
(* tells that the call read past the end of a vector and went on with the  *)
(* indeterminate value; names is the group-name table of the returned      *)
(* collection.  Status "exception" is a call that threw.                   *)
(***************************************************************************)
NoResult ==
  [status |-> "none", alloc |-> FALSE, recs |-> <<>>, shuf |-> <<>>, indet |-> FALSE,
   names |-> <<>>]

\* unique_ptr<PolymorphismMultiGContainer> p;  (holds nothing)
NullContainer ==
  [status |-> "ok", alloc |-> FALSE, recs |-> <<>>, shuf |-> <<>>, indet |-> FALSE,
   names |-> <<>>]

\* make_unique<PolymorphismMultiGContainer>()
EmptyContainer ==
  [status |-> "ok", alloc |-> TRUE, recs |-> <<>>, shuf |-> <<>>, indet |-> FALSE,
   names |-> <<>>]

\* unique_ptr<MultilocusGenotype> handles: make_unique gives a handle that
\* holds a genotype vector; a handle the collection took its object from
\* holds nothing.
make_unique(mg) == [held |-> TRUE, mg |-> mg]

movedFrom == [held |-> FALSE, mg |-> NoGenotype]

\* p->addMultilocusGenotype(tmpMg, grp): appends a record that owns the
\* object of tmpMg; through a handle p that holds no collection the call
\* dereferences a null pointer.
addMultilocusGenotype(p, tmpMg, grp) ==
  IF p.status # "ok" THEN p
  ELSE IF ~p.alloc THEN [p EXCEPT !.status = "crash"]
  ELSE [p EXCEPT !.recs = Append(@, [grp |-> grp, gen |-> tmpMg.mg])]

\* The records of c whose group id is in grps, in collection order.
Selected(c, grps) == SelectSeq(c, LAMBDA r : r.grp \in grps)

Min(S) == CHOOSE x \in S : \A y \in S : x <= y

(***************************************************************************)
(* std::shuffle: every arrangement of the elements of s.                   *)
(***************************************************************************)
RemoveAt(s, i) == SubSeq(s, 1, i - 1) \o SubSeq(s, i + 1, Len(s))

RECURSIVE Arrangements(_)
Arrangements(s) ==
  IF s = <<>> THEN {<<>>}
  ELSE UNION {{<<s[i]>> \o t : t \in Arrangements(RemoveAt(s, i))} :
                i \in {x \in 1..Len(s) : \A y \in 1..(x - 1) : s[y] # s[x]}}

shuffle(s) == Arrangements(s)

\* One shuffle per locus, each with its own outcome.
RECURSIVE shuffleEach(_)
shuffleEach(pools) ==
  IF pools = <<>> THEN {<<>>}
  ELSE {<<h>> \o t : h \in shuffle(Head(pools)), t \in shuffleEach(Tail(pools))}

(***************************************************************************)
(* permuteMultiG: label permutation.                                       *)
(***************************************************************************)
\* The write-back loop storing groups[0] in every record.
permuteMultiG_firstId(c) ==
  {[EmptyContainer EXCEPT
      !.recs = [i \in 1..Len(c) |-> [grp |-> sh[1], gen |-> c[i].gen]],
      !.shuf = <<sh>>] :
     sh \in shuffle([i \in 1..Len(c) |-> c[i].grp])}

permuteMultiG(c) ==
  {[EmptyContainer EXCEPT
      !.recs = [i \in 1..Len(c) |-> [grp |-> sh[i], gen |-> c[i].gen]],
      !.shuf = <<sh>>] :
     sh \in shuffle([i \in 1..Len(c) |-> c[i].grp])}

(***************************************************************************)
(* permuteMonoG: cross-group genotype permutation.                         *)
(***************************************************************************)
\* Lines 79-88: per locus, the genotype of every selected record in
\* visiting order (the missing genotype gives a null entry).
monoGensOf(c, grps) ==
  [j \in 1..getNumberOfLoci(c) |->
     [k \in 1..Len(Selected(c, grps)) |-> Selected(c, grps)[k].gen[j]]]

\* Lines 100-105: a new genotype vector, locus j set to the k-th shuffled
\* entry unless that entry is null.
rebuiltGenotype(monoGens, k) ==
  [j \in 1..Len(monoGens) |->
     IF monoGens[j][k] # Missing THEN monoGens[j][k]
     ELSE MultilocusGenotype(Len(monoGens))[j]]

\* Lines 95-114: the rebuilding loop, from record i on, k selected records
\* already rebuilt, into the result handle p.
RECURSIVE buildMonoG(_, _, _, _, _, _)
buildMonoG(c, grps, monoGens, i, k, p) ==
  IF i > Len(c) THEN p
  ELSE IF c[i].grp \in grps
    THEN buildMonoG(c, grps, monoGens, i + 1, k + 1,
           addMultilocusGenotype(p, make_unique(rebuiltGenotype(monoGens, k + 1)),
                                 c[i].grp))
    ELSE buildMonoG(c, grps, monoGens, i + 1, k,
           addMultilocusGenotype(p, make_unique(c[i].gen), c[i].grp))

\* Line 74 declares the result handle without a collection.
permuteMonoG(c, grps) ==
  {[buildMonoG(c, grps, sh, 1, 0, NullContainer) EXCEPT !.shuf = sh] :
     sh \in shuffleEach(monoGensOf(c, grps))}

(***************************************************************************)
(* permuteIntraGroupMonoG: intra-group genotype permutation.               *)
(***************************************************************************)
\* Lines 142-162: the collecting loop of group g from record i on.  st is
\* [p, monoGens, nbIndInGroup]; records of unselected groups are added to
\* the result as they are.
RECURSIVE collectIntraGroupMonoG(_, _, _, _, _)
collectIntraGroupMonoG(c, grps, g, i, st) ==
  IF i > Len(c) THEN st
  ELSE IF c[i].grp \in grps
    THEN IF c[i].grp = g
      THEN collectIntraGroupMonoG(c, grps, g, i + 1,
             [st EXCEPT !.nbIndInGroup = @ + 1,
                        !.monoGens = [j \in DOMAIN @ |-> Append(@[j], c[i].gen[j])]])
      ELSE collectIntraGroupMonoG(c, grps, g, i + 1, st)
    ELSE collectIntraGroupMonoG(c, grps, g, i + 1,
           [st EXCEPT !.p = addMultilocusGenotype(@, make_unique(c[i].gen), c[i].grp)])

\* Lines 173-183: tmpMg is made once, before the loop over k; every
\* addMultilocusGenotype takes its object.  Setting a locus through the
\* emptied handle dereferences a null pointer.
RECURSIVE buildIntraGroupMonoG(_, _, _, _, _, _)
buildIntraGroupMonoG(monoGens, nbIndInGroup, g, k, tmpMg, p) ==
  IF k > nbIndInGroup \/ p.status # "ok" THEN p
  ELSE LET toSet == {j \in 1..Len(monoGens) : monoGens[j][k] # Missing}
       IN IF toSet # {} /\ ~tmpMg.held THEN [p EXCEPT !.status = "crash"]
          ELSE LET filled ==
                     IF tmpMg.held
                     THEN make_unique([j \in 1..Len(monoGens) |->
                                         IF j \in toSet THEN monoGens[j][k]
                                         ELSE tmpMg.mg[j]])
                     ELSE tmpMg
               IN buildIntraGroupMonoG(monoGens, nbIndInGroup, g, k + 1, movedFrom,
                                       addMultilocusGenotype(p, filled, g))

\* Lines 138-185: the loop over the groups of the set, in increasing order
\* (std::set).  monoGens is declared before the loop (line 135) and keeps
\* its entries from one group to the next.
RECURSIVE intraGroupMonoGLoop(_, _, _, _, _)
intraGroupMonoGLoop(c, grps, todo, monoGens, p) ==
  IF todo = {} \/ p.status # "ok" THEN {p}
  ELSE LET g == Min(todo)
           col == collectIntraGroupMonoG(c, grps, g, 1,
                    [p |-> p, monoGens |-> monoGens, nbIndInGroup |-> 0])
       IN IF col.nbIndInGroup = 0
          THEN intraGroupMonoGLoop(c, grps, todo \ {g}, col.monoGens, col.p)
          ELSE UNION {intraGroupMonoGLoop(c, grps, todo \ {g}, sh,
                        buildIntraGroupMonoG(sh, col.nbIndInGroup, g, 1,
                          make_unique(MultilocusGenotype(Len(sh))),
                          [col.p EXCEPT !.shuf = Append(@, sh)])) :
                      sh \in shuffleEach(col.monoGens)}

permuteIntraGroupMonoG(c, grps) ==
  intraGroupMonoGLoop(c, grps, grps,
                      [j \in 1..getNumberOfLoci(c) |-> <<>>], EmptyContainer)

(***************************************************************************)
(* permuteAlleles and permuteIntraGroupAlleles: allele permutation.        *)
(***************************************************************************)
\* A read past the end of a vector<size_t> is undefined behaviour.  A
\* vector that never got an element has no storage (its data pointer is
\* null), and the read faults; past the end of a vector that has storage the
\* read faults or gives an indeterminate value.
\* As an allele count the value is 1, 2 or another value (0 stands for every
\* other value: the code tests the count against 1 and 2 only).  As an
\* allele index the value is not followed any further: 0 stands for
\* whichever value the read gives.
IndeterminateCounts  == {0, 1, 2}

IndeterminateAlleles == {0}

\* The orders in which a build evaluates the two arguments
\* alleles[j][k[j]++] of BiAlleleMonolocusGenotype (lines 242, 331).
ArgumentOrders == {"leftFirst", "rightFirst"}

\* alleles[j][idx], idx counted from 1: the values the read can give.
alleleAt(pool, idx) ==
  IF idx <= Len(pool) THEN {pool[idx]}
  ELSE IF Len(pool) = 0 THEN {}
  ELSE IndeterminateAlleles

\* The same, a two-allele genotype taking both alleles from one entry of
\* the pool.
drawGenotype_sameEntry(pool, nbAlls, ord, k) ==
  IF nbAlls = 0 THEN {[ok |-> TRUE, g |-> Missing, k |-> k, past |-> FALSE]}
  ELSE {[ok |-> TRUE,
         g |-> IF nbAlls = 1 THEN MonoAlleleMonolocusGenotype(a)
               ELSE BiAlleleMonolocusGenotype(a, a),
         k |-> k + 1,
         past |-> k + 1 > Len(pool)] :
          a \in alleleAt(pool, k + 1)}

\* Lines 239-242 and 328-331 at one locus: the genotype built for a record
\* with nbAlls alleles from the pool, k entries of it consumed so far; the
\* set of [ok, g, k, past]: past tells that a read was past the end of the
\* pool, ok is FALSE when such a read faults.
drawGenotype(pool, nbAlls, ord, k) ==
  IF nbAlls = 1
  THEN {[ok |-> TRUE, g |-> MonoAlleleMonolocusGenotype(a), k |-> k + 1,
         past |-> k + 1 > Len(pool)] :
          a \in alleleAt(pool, k + 1)}
       \cup (IF k + 1 > Len(pool)
             THEN {[ok |-> FALSE, g |-> Missing, k |-> k, past |-> TRUE]} ELSE {})
  ELSE IF nbAlls = 2
  THEN {[ok |-> TRUE,
         g |-> IF ord = "leftFirst" THEN BiAlleleMonolocusGenotype(a, b)
               ELSE BiAlleleMonolocusGenotype(b, a),
         k |-> k + 2,
         past |-> k + 2 > Len(pool)] :
          a \in alleleAt(pool, k + 1), b \in alleleAt(pool, k + 2)}
       \cup (IF k + 2 > Len(pool)
             THEN {[ok |-> FALSE, g |-> Missing, k |-> k, past |-> TRUE]} ELSE {})
  ELSE {[ok |-> TRUE, g |-> Missing, k |-> k, past |-> FALSE]}

\* The loop over the loci of one record, from locus j on: the set of
\* [ok, mg, k, past], mg the genotypes of loci j.., k the consumption
\* indices.
RECURSIVE drawLoci(_, _, _, _, _)
drawLoci(alleles, nbAlls, ord, k, j) ==
  IF j > Len(alleles) THEN {[ok |-> TRUE, mg |-> <<>>, k |-> k, past |-> FALSE]}
  ELSE UNION {IF d.ok
              THEN {[ok |-> r.ok, mg |-> <<d.g>> \o r.mg, k |-> r.k,
                     past |-> d.past \/ r.past] :
                      r \in drawLoci(alleles, nbAlls, ord, [k EXCEPT ![j] = d.k], j + 1)}
              ELSE {[ok |-> FALSE, mg |-> <<>>, k |-> k, past |-> TRUE]} :
                d \in drawGenotype(alleles[j], nbAlls[j], ord, k[j])}

\* Lines 209-222: per locus, the alleles of every selected record in
\* visiting order (a missing genotype contributes none).
RECURSIVE flatten(_)
flatten(ss) == IF ss = <<>> THEN <<>> ELSE Head(ss) \o flatten(Tail(ss))

allelesOf(c, grps) ==
  [j \in 1..getNumberOfLoci(c) |->
     flatten([i \in 1..Len(Selected(c, grps)) |-> Selected(c, grps)[i].gen[j]])]

\* Lines 230-252: the rebuilding loop from record i on; the ploidy of a
\* selected record at a locus is read from the input.
RECURSIVE buildAlleles(_, _, _, _, _, _, _)
buildAlleles(c, grps, alleles, ord, i, k, p) ==
  IF i > Len(c) \/ p.status # "ok" THEN {p}
  ELSE IF c[i].grp \in grps
    THEN UNION {IF m.ok
                THEN buildAlleles(c, grps, alleles, ord, i + 1, m.k,
                       addMultilocusGenotype([p EXCEPT !.indet = @ \/ m.past],
                                             make_unique(m.mg), c[i].grp))
                ELSE {[p EXCEPT !.status = "crash"]} :
                  m \in drawLoci(alleles,
                                 [j \in 1..Len(alleles) |->
                                    IF isMonolocusGenotypeMissing(c[i].gen, j) THEN 0
                                    ELSE Len(c[i].gen[j])],
                                 ord, k, 1)}
    ELSE buildAlleles(c, grps, alleles, ord, i + 1, k,
           addMultilocusGenotype(p, make_unique(c[i].gen), c[i].grp))

permuteAlleles(c, grps) ==
  UNION {buildAlleles(c, grps, sh, ord, 1, [j \in 1..Len(sh) |-> 0],
                      [EmptyContainer EXCEPT !.shuf = sh]) :
           sh \in shuffleEach(allelesOf(c, grps)), ord \in ArgumentOrders}

\* Lines 282-309: the collecting loop of group g from record i on.  st is
\* [p, alleles, nbAllelesForInds, nbIndInGroup]; nbAllelesForInds gets an
\* entry only for a genotype that is not missing.
RECURSIVE collectIntraGroupAlleles(_, _, _, _, _)
collectIntraGroupAlleles(c, grps, g, i, st) ==
  IF i > Len(c) THEN st
  ELSE IF c[i].grp \in grps
    THEN IF c[i].grp = g
      THEN collectIntraGroupAlleles(c, grps, g, i + 1,
             [st EXCEPT
                !.nbIndInGroup = @ + 1,
                !.nbAllelesForInds =
                   [j \in DOMAIN @ |->
                      IF isMonolocusGenotypeMissing(c[i].gen, j) THEN @[j]
                      ELSE Append(@[j], Len(c[i].gen[j]))],
                !.alleles =
                   [j \in DOMAIN @ |->
                      IF isMonolocusGenotypeMissing(c[i].gen, j) THEN @[j]
                      ELSE @[j] \o c[i].gen[j]]])
      ELSE collectIntraGroupAlleles(c, grps, g, i + 1, st)
    ELSE collectIntraGroupAlleles(c, grps, g, i + 1,
           [st EXCEPT !.p = addMultilocusGenotype(@, make_unique(c[i].gen), c[i].grp)])

\* nbAllelesForInds[j][ind] for every locus j, ind counted from 1: the
\* vectors of counts the reads can give, and whether a read is past the end.
countsRead(nbAllelesForInds, ind) ==
  {f \in [1..Len(nbAllelesForInds) -> IndeterminateCounts] :
     \A j \in 1..Len(nbAllelesForInds) :
        IF ind <= Len(nbAllelesForInds[j]) THEN f[j] = nbAllelesForInds[j][ind]
        ELSE Len(nbAllelesForInds[j]) > 0}

countsReadPastEnd(nbAllelesForInds, ind) ==
  \E j \in 1..Len(nbAllelesForInds) : ind > Len(nbAllelesForInds[j])

\* Lines 323-335: the rebuilding loop of group g, from individual ind on.
RECURSIVE buildIntraGroupAlleles(_, _, _, _, _, _, _, _)
buildIntraGroupAlleles(alleles, nbAllelesForInds, nbIndInGroup, g, ord, ind, k, p) ==
  IF ind > nbIndInGroup \/ p.status # "ok" THEN {p}
  ELSE UNION {UNION {IF m.ok
                     THEN buildIntraGroupAlleles(alleles, nbAllelesForInds,
                            nbIndInGroup, g, ord, ind + 1, m.k,
                            addMultilocusGenotype(
                              [p EXCEPT !.indet = @ \/ m.past
                                          \/ countsReadPastEnd(nbAllelesForInds, ind)],
                              make_unique(m.mg), g))
                     ELSE {[p EXCEPT !.status = "crash"]} :
                       m \in drawLoci(alleles, nbAlls, ord, k, 1)} :
                nbAlls \in countsRead(nbAllelesForInds, ind)}
       \cup (IF countsReadPastEnd(nbAllelesForInds, ind)
             THEN {[p EXCEPT !.status = "crash"]} ELSE {})

\* Lines 275-337: the loop over the groups of the set, in increasing
\* order.  alleles is declared before the loop (line 272) and keeps its
\* entries from one group to the next; k starts at 0 for every group.
RECURSIVE intraGroupAllelesLoop(_, _, _, _, _, _)
intraGroupAllelesLoop(c, grps, todo, ord, alleles, p) ==
  IF todo = {} \/ p.status # "ok" THEN {p}
  ELSE LET g == Min(todo)
           col == collectIntraGroupAlleles(c, grps, g, 1,
                    [p |-> p, alleles |-> alleles,
                     nbAllelesForInds |-> [j \in 1..Len(alleles) |-> <<>>],
                     nbIndInGroup |-> 0])
       IN IF col.nbIndInGroup = 0
          THEN intraGroupAllelesLoop(c, grps, todo \ {g}, ord, col.alleles, col.p)
          ELSE UNION {UNION {intraGroupAllelesLoop(c, grps, todo \ {g}, ord, sh, q) :
                               q \in buildIntraGroupAlleles(sh, col.nbAllelesForInds,
                                       col.nbIndInGroup, g, ord, 1,
                                       [j \in 1..Len(sh) |-> 0],
                                       [col.p EXCEPT !.shuf = Append(@, sh)])} :
                        sh \in shuffleEach(col.alleles)}

permuteIntraGroupAlleles(c, grps) ==
  UNION {intraGroupAllelesLoop(c, grps, grps, ord,
                               [j \in 1..getNumberOfLoci(c) |-> <<>>], EmptyContainer) :
           ord \in ArgumentOrders}

(***************************************************************************)
(* Group names.  A name is the sequence of its characters.  The name table *)
(* of a collection has an entry for every group id a name was set for.     *)
(***************************************************************************)
GroupNames == {<<"A">>, <<"B">>}

NoNames == <<>>

\* The ids of the groups of a collection: the group ids its records carry.
getAllGroupsIds(recs) == {recs[i].grp : i \in 1..Len(recs)}

\* The name tables an input collection can have.
NameTables(c) == UNION {[S -> GroupNames] : S \in SUBSET getAllGroupsIds(c)}

\* TextTools::toString of an unsigned integer: its decimal digits.
DigitChars == <<"0", "1", "2", "3", "4", "5", "6", "7", "8", "9">>

RECURSIVE toString(_)
toString(n) ==
  IF n < 10 THEN <<DigitChars[n + 1]>>
  ELSE toString(n \div 10) \o <<DigitChars[(n % 10) + 1]>>

\* pmgc.getGroupName(id): the name set for the group, the stringified id
\* when none was set.
getGroupName(nm, id) == IF id \in DOMAIN nm THEN nm[id] ELSE toString(id)

\* p->setGroupName(id, name): through a handle that holds no collection the
\* call dereferences a null pointer; for an id no record of the collection
\* carries the lookup fails.
setGroupName(p, id, name) ==
  IF p.status # "ok" THEN p
  ELSE IF ~p.alloc THEN [p EXCEPT !.status = "crash"]
  ELSE IF id \notin getAllGroupsIds(p.recs) THEN [p EXCEPT !.status = "exception"]
  ELSE [p EXCEPT !.names = (id :> name) @@ @]

\* The closing loop, setting the stringified id for every id.
RECURSIVE updateGroupNames_idOnly(_, _, _)
updateGroupNames_idOnly(nm, ids, p) ==
  IF ids = {} THEN p
  ELSE updateGroupNames_idOnly(nm, ids \ {Min(ids)},
                               setGroupName(p, Min(ids), toString(Min(ids))))

\* The closing loop of an operation ("update groups names"): for every id
\* of ids, ascending, the name the input gives is set in the result.
RECURSIVE updateGroupNames(_, _, _)
updateGroupNames(nm, ids, p) ==
  IF ids = {} THEN p
  ELSE updateGroupNames(nm, ids \ {Min(ids)},
                        setGroupName(p, Min(ids), getGroupName(nm, Min(ids))))

\* Line 54: the result of permuteMultiG starts as a copy of the input, its
\* name table included.
copyGroupNames(nm, p) == [p EXCEPT !.names = nm]

(***************************************************************************)
(* extractGroups: the records of the groups of the set.                    *)
(***************************************************************************)
\* Lines 361-373, the loop over the records for one g of the set, taking
\* every record of a group of the set.
RECURSIVE extractGroup_anyOfSet(_, _, _, _, _)
extractGroup_anyOfSet(c, grps, g, i, p) ==
  IF i > Len(c) THEN p
  ELSE extractGroup_anyOfSet(c, grps, g, i + 1,
         IF c[i].grp \in grps
         THEN addMultilocusGenotype(p, make_unique(c[i].gen), c[i].grp)
         ELSE p)

\* Lines 361-373: the loop over the records for one g of the set.
RECURSIVE extractGroup(_, _, _, _, _)
extractGroup(c, grps, g, i, p) ==
  IF i > Len(c) THEN p
  ELSE extractGroup(c, grps, g, i + 1,
         IF c[i].grp \in grps /\ c[i].grp = g
         THEN addMultilocusGenotype(p, make_unique(c[i].gen), c[i].grp)
         ELSE p)

\* Lines 359-374: the loop over the groups of the set, ascending.
RECURSIVE extractGroupsLoop(_, _, _, _)
extractGroupsLoop(c, grps, todo, p) ==
  IF todo = {} THEN p
  ELSE extractGroupsLoop(c, grps, todo \ {Min(todo)},
                         extractGroup(c, grps, Min(todo), 1, p))

\* Lines 376-381 name the groups of the result, not those of the input.
extractGroups(c, nm, grps) ==
  updateGroupNames(nm,
                   getAllGroupsIds(extractGroupsLoop(c, grps, grps, EmptyContainer).recs),
                   extractGroupsLoop(c, grps, grps, EmptyContainer))

(***************************************************************************)
(* Part 2: DataSet (src/Pop/DataSet.cpp).                                  *)
(*                                                                         *)
(* A DataSet holds groups_, the sequence of its groups, and localities_,   *)
(* the sequence of its localities.  A group is [id, name, inds]: its       *)
(* unsigned id, its name (a sequence of characters, empty when none was    *)
(* set) and the ids of its individuals in storage order.  A locality is    *)
(* its name.  Positions are counted from 0, as in the code.                *)
(*                                                                         *)
(* An operator named after a member function gives the set of the          *)
(* outcomes [ds, raised, name, num] of a call on the DataSet ds: the        *)
(* DataSet after the call, the exception that left the call ("none" when   *)
(* it returned, "crash" when it executed undefined behaviour and faulted,  *)
(* "terminate" when an exception outside the function's exception          *)
(* specification was thrown), and the string or the number returned.       *)
(*                                                                         *)
(* A group id is an unsigned int of 32 bits.  It is held as the integer    *)
(* with the same 32 bits in two's complement: the ids from 2^31 on are the *)
(* negative integers, the largest id 2^32 - 1 is -1, and the successor of  *)
(* the largest id is 0.                                                    *)
(***************************************************************************)
MaxSize == 2                        \* groups, and localities, of a DataSet

UIntMax == -1                       \* the bits of 2^32 - 1

IntMax == 2147483647                \* 2^31 - 1

DataSetGroupIds == {0, 1, UIntMax}
IndividualIds   == {"a", "b"}
LocalityNames   == {"x", "y"}
DataSetGroupNames == {<<>>, <<"A">>}

\* The pointer analyzedLoci_ when it is 0.
NoAnalyzedLoci == [at |-> "0", loci |-> 0]

NoDataSet == [groups_ |-> <<>>, localities_ |-> <<>>, analyzedLoci_ |-> NoAnalyzedLoci]

NoCall ==
  [op |-> "none", id |-> 0, pos |-> 0, list |-> <<>>,
   raised |-> "none", name |-> <<>>, num |-> 0]

\* Group::Group(unsigned int group_id)
Group(group_id) == [id |-> group_id, name |-> <<>>, inds |-> <<>>]

Returns(ds, name, num) == [ds |-> ds, raised |-> "none", name |-> name, num |-> num]

Throws(ds, exception) == [ds |-> ds, raised |-> exception, name |-> <<>>, num |-> 0]

\* a < b between unsigned ints.
ULess(a, b) == IF (a < 0) = (b < 0) THEN a < b ELSE a >= 0

\* ++ on an unsigned int.
UInc(a) == IF a = IntMax THEN (-IntMax) - 1 ELSE a + 1

\* The half of the unsigned int a >= 2^31.
UHalf(a) == IntMax + (1 + (a \div 2))

\* TextTools::toString of an unsigned int: its decimal digits.
toStringUInt(a) ==
  IF a >= 0 THEN toString(a)
  ELSE toString(UHalf(a) \div 5) \o <<DigitChars[2 * (UHalf(a) % 5) + (a % 2) + 1]>>

\* The positions (from 0) of the groups of ds with the id group_id.
PositionsOfId(ds, group_id) ==
  {i \in 0..(Len(ds.groups_) - 1) : ds.groups_[i + 1].id = group_id}

\* DataSet::getGroupById: the pointer to the first group with the id, held
\* as <<its position>>, or NULL.
NULL == <<>>

getGroupById(ds, group_id) ==
  IF PositionsOfId(ds, group_id) = {} THEN NULL ELSE <<Min(PositionsOfId(ds, group_id))>>

\* DataSet::addGroup without the test of the id.
DataSet_addGroup_unchecked(ds, group) ==
  {Returns([ds EXCEPT !.groups_ = Append(@, group)], <<>>, 0)}

\* DataSet::addGroup(const Group& group)
DataSet_addGroup(ds, group) ==
  IF PositionsOfId(ds, group.id) # {}
  THEN {Throws(ds, "BadIdentifierException")}
  ELSE {Returns([ds EXCEPT !.groups_ = Append(@, group)], <<>>, 0)}

\* DataSet::addEmptyGroup(unsigned int group_id)
DataSet_addEmptyGroup(ds, group_id) ==
  IF PositionsOfId(ds, group_id) # {}
  THEN {Throws(ds, "BadIdentifierException")}
  ELSE {Returns([ds EXCEPT !.groups_ = Append(@, Group(group_id))], <<>>, 0)}

\* DataSet::getGroupName returning the stored name, empty or not.
DataSet_getGroupName_storedName(ds, group_id) ==
  IF getGroupById(ds, group_id) = NULL THEN {Throws(ds, "crash")}
  ELSE {Returns(ds, ds.groups_[getGroupById(ds, group_id)[1] + 1].name, 0)}

\* DataSet::getGroupName(unsigned int group_id): getGroupById(group_id) is
\* dereferenced without a test, a null pointer for an id no group has.
DataSet_getGroupName(ds, group_id) ==
  IF getGroupById(ds, group_id) = NULL THEN {Throws(ds, "crash")}
  ELSE IF ds.groups_[getGroupById(ds, group_id)[1] + 1].name # <<>>
  THEN {Returns(ds, ds.groups_[getGroupById(ds, group_id)[1] + 1].name, 0)}
  ELSE {Returns(ds, toStringUInt(group_id), 0)}

\* DataSet::setGroupName(unsigned int group_id, const std::string& group_name)
DataSet_setGroupName(ds, group_id, group_name) ==
  IF PositionsOfId(ds, group_id) = {}
  THEN {Throws(ds, "GroupNotFoundException")}
  ELSE {Returns([ds EXCEPT !.groups_[Min(PositionsOfId(ds, group_id)) + 1].name = group_name],
                <<>>, 0)}

\* DataSet::deleteGroupAtPosition(unsigned int group_position)
DataSet_deleteGroupAtPosition(ds, group_position) ==
  IF group_position >= Len(ds.groups_)
  THEN {Throws(ds, "IndexOutOfBoundsException")}
  ELSE {Returns([ds EXCEPT !.groups_ = RemoveAt(@, group_position + 1)], <<>>, 0)}

\* Whether the individual ind is in the group at position pos of ds.
HasIndividual(ds, pos, ind) ==
  \E k \in 1..Len(ds.groups_[pos + 1].inds) : ds.groups_[pos + 1].inds[k] = ind

\* Group::addIndividual on the group at position pos: [ok, ds]; ok is FALSE
\* when the group has an individual with the id (BadIdentifierException).
Group_addIndividual(ds, pos, ind) ==
  IF HasIndividual(ds, pos, ind) THEN [ok |-> FALSE, ds |-> ds]
  ELSE [ok |-> TRUE, ds |-> [ds EXCEPT !.groups_[pos + 1].inds = Append(@, ind)]]

\* Group::removeIndividualAtPosition and Group::deleteIndividualAtPosition
\* on the group at position pos: [ok, ds]; ok is FALSE when the position is
\* not one of the group (IndexOutOfBoundsException).
Group_removeIndividualAtPosition(ds, pos, individual_position) ==
  IF individual_position >= Len(ds.groups_[pos + 1].inds) THEN [ok |-> FALSE, ds |-> ds]
  ELSE [ok |-> TRUE,
        ds |-> [ds EXCEPT !.groups_[pos + 1].inds = RemoveAt(@, individual_position + 1)]]

\* Lines 274-275 and 292-294: the individuals of the group at source_pos,
\* from the i-th on, are added to the group at target_pos; [ok, ds].
RECURSIVE copyIndividuals(_, _, _, _)
copyIndividuals(ds, source_pos, target_pos, i) ==
  IF i >= Len(ds.groups_[source_pos + 1].inds) THEN [ok |-> TRUE, ds |-> ds]
  ELSE IF ~Group_addIndividual(ds, target_pos, ds.groups_[source_pos + 1].inds[i + 1]).ok
  THEN [ok |-> FALSE, ds |-> ds]
  ELSE copyIndividuals(
         Group_addIndividual(ds, target_pos, ds.groups_[source_pos + 1].inds[i + 1]).ds,
         source_pos, target_pos, i + 1)

\* DataSet::mergeTwoGroups(source_id, target_id); its exception
\* specification has GroupNotFoundException only.
DataSet_mergeTwoGroups(ds, source_id, target_id) ==
  IF getGroupById(ds, source_id) = NULL \/ getGroupById(ds, target_id) = NULL
  THEN {Throws(ds, "GroupNotFoundException")}
  ELSE IF ~copyIndividuals(ds, getGroupById(ds, source_id)[1],
                           getGroupById(ds, target_id)[1], 0).ok
  THEN {Throws(ds, "terminate")}
  ELSE DataSet_deleteGroupAtPosition(
         copyIndividuals(ds, getGroupById(ds, source_id)[1],
                         getGroupById(ds, target_id)[1], 0).ds,
         getGroupById(ds, source_id)[1])

\* std::sort of a vector of unsigned int.
RECURSIVE sortUInt(_)
sortUInt(v) ==
  IF v = <<>> THEN <<>>
  ELSE <<v[CHOOSE i \in 1..Len(v) : \A k \in 1..Len(v) : ~ULess(v[k], v[i])]>>
       \o sortUInt(RemoveAt(v, CHOOSE i \in 1..Len(v) : \A k \in 1..Len(v) : ~ULess(v[k], v[i])))

\* groups_[pos_first]: the pointers the read can give.  Past the end of
\* groups_ the value is indeterminate: the pointer to any group, or no
\* valid pointer (NULL here).
groupPointerAt(ds, pos) ==
  IF pos < Len(ds.groups_) THEN {<<pos>>}
  ELSE {NULL} \cup {<<q>> : q \in 0..(Len(ds.groups_) - 1)}

\* Lines 290-297: the loop of mergeGroups from the i-th id on (i from 1);
\* pos_first was computed before the loop.
RECURSIVE mergeLoop(_, _, _, _)
mergeLoop(ds, group_ids, pos_first, i) ==
  IF i > Len(group_ids) THEN {Returns(ds, <<>>, 0)}
  ELSE IF getGroupById(ds, group_ids[i]) = NULL
  THEN {Throws(ds, "GroupNotFoundException")}
  ELSE IF ds.groups_[getGroupById(ds, group_ids[i])[1] + 1].inds = <<>>
  THEN mergeLoop(
         [ds EXCEPT !.groups_ = RemoveAt(@, getGroupById(ds, group_ids[i])[1] + 1)],
         group_ids, pos_first, i + 1)
  ELSE UNION {
         IF t = NULL THEN {Throws(ds, "crash")}
         ELSE IF ~copyIndividuals(ds, getGroupById(ds, group_ids[i])[1], t[1], 0).ok
         THEN {Throws(ds, "terminate")}
         ELSE mergeLoop(
                [ds EXCEPT !.groups_ =
                   RemoveAt(copyIndividuals(ds, getGroupById(ds, group_ids[i])[1],
                                            t[1], 0).ds.groups_,
                            getGroupById(ds, group_ids[i])[1] + 1)],
                group_ids, pos_first, i + 1) :
           t \in groupPointerAt(ds, pos_first)}

\* DataSet::mergeGroups(group_ids).  For an empty vector group_ids[0] is
\* read from a vector without elements: the read faults, or gives an
\* indeterminate id that a group has or that no group has.
DataSet_mergeGroups(ds, group_ids) ==
  IF \E i \in 1..Len(group_ids) : getGroupById(ds, group_ids[i]) = NULL
  THEN {Throws(ds, "GroupNotFoundException")}
  ELSE IF group_ids = <<>>
  THEN {Throws(ds, "crash"), Throws(ds, "GroupNotFoundException")}
       \cup (IF ds.groups_ # <<>> THEN {Returns(ds, <<>>, 0)} ELSE {})
  ELSE mergeLoop(ds, sortUInt(group_ids),
                 getGroupById(ds, sortUInt(group_ids)[1])[1], 2)

\* Lines 311-315: the largest group id, 0 when there is no larger one,
\* incremented.
RECURSIVE largestId(_, _, _)
largestId(ds, i, new_group_id) ==
  IF i >= Len(ds.groups_) THEN new_group_id
  ELSE largestId(ds, i + 1,
                 IF ULess(new_group_id, ds.groups_[i + 1].id) THEN ds.groups_[i + 1].id
                 ELSE new_group_id)

newGroupId(ds) == UInc(largestId(ds, 0, 0))

\* Lines 320-323: the moving loop of splitGroup from the i-th selected
\* position on (i from 1); [raised, ds, new_group].  The individual at the
\* selected position is removed from the source and added to new_group,
\* then the individual at that position of the source is deleted.
RECURSIVE moveIndividuals(_, _, _, _, _)
moveIndividuals(ds, source_pos, individuals_selection, i, new_group) ==
  IF i > Len(individuals_selection)
  THEN [raised |-> "none", ds |-> ds, new_group |-> new_group]
  ELSE IF ~Group_removeIndividualAtPosition(ds, source_pos, individuals_selection[i]).ok
  THEN [raised |-> "IndexOutOfBoundsException", ds |-> ds, new_group |-> new_group]
  ELSE IF \E k \in 1..Len(new_group.inds) :
            new_group.inds[k] = ds.groups_[source_pos + 1].inds[individuals_selection[i] + 1]
  THEN [raised |-> "BadIdentifierException",
        ds |-> Group_removeIndividualAtPosition(ds, source_pos, individuals_selection[i]).ds,
        new_group |-> new_group]
  ELSE IF ~Group_removeIndividualAtPosition(
             Group_removeIndividualAtPosition(ds, source_pos, individuals_selection[i]).ds,
             source_pos, individuals_selection[i]).ok
  THEN [raised |-> "IndexOutOfBoundsException",
        ds |-> Group_removeIndividualAtPosition(ds, source_pos, individuals_selection[i]).ds,
        new_group |-> new_group]
  ELSE moveIndividuals(
         Group_removeIndividualAtPosition(
           Group_removeIndividualAtPosition(ds, source_pos, individuals_selection[i]).ds,
           source_pos, individuals_selection[i]).ds,
         source_pos, individuals_selection, i + 1,
         [new_group EXCEPT !.inds =
            Append(@, ds.groups_[source_pos + 1].inds[individuals_selection[i] + 1])])

\* Lines 320-324: the moving loop, then addGroup(new_group), for a group
\* id a group has.
moveAndAddGroup(ds, group_id, individuals_selection) ==
  IF moveIndividuals(ds, getGroupById(ds, group_id)[1], individuals_selection, 1,
                          Group(newGroupId(ds))).raised # "none"
  THEN {Throws(moveIndividuals(ds, getGroupById(ds, group_id)[1], individuals_selection, 1,
                               Group(newGroupId(ds))).ds,
               moveIndividuals(ds, getGroupById(ds, group_id)[1], individuals_selection, 1,
                               Group(newGroupId(ds))).raised)}
  ELSE DataSet_addGroup(
         moveIndividuals(ds, getGroupById(ds, group_id)[1], individuals_selection, 1,
                         Group(newGroupId(ds))).ds,
         moveIndividuals(ds, getGroupById(ds, group_id)[1], individuals_selection, 1,
                         Group(newGroupId(ds))).new_group)

\* DataSet::splitGroup without the test of the selection (lines 317-319).
DataSet_splitGroup_unchecked(ds, group_id, individuals_selection) ==
  IF getGroupById(ds, group_id) = NULL
  THEN {Throws(ds, "GroupNotFoundException")}
  ELSE moveAndAddGroup(ds, group_id, individuals_selection)

\* DataSet::splitGroup(group_id, individuals_selection)
DataSet_splitGroup(ds, group_id, individuals_selection) ==
  IF getGroupById(ds, group_id) = NULL
  THEN {Throws(ds, "GroupNotFoundException")}
  ELSE IF \E i \in 1..Len(individuals_selection) :
            individuals_selection[i] >= Len(ds.groups_[getGroupById(ds, group_id)[1] + 1].inds)
  THEN {Throws(ds, "IndexOutOfBoundsException")}
  ELSE moveAndAddGroup(ds, group_id, individuals_selection)

\* DataSet::getGroupAtPosition(group_position): the pointer to the group,
\* given as its position.
DataSet_getGroupAtPosition(ds, group_position) ==
  IF group_position >= Len(ds.groups_)
  THEN {Throws(ds, "IndexOutOfBoundsException")}
  ELSE {Returns(ds, <<>>, group_position)}

\* DataSet::addIndividualToGroup(group, individual), for an individual
\* without sequences.
DataSet_addIndividualToGroup(ds, group, individual) ==
  IF group >= Len(ds.groups_)
  THEN {Throws(ds, "IndexOutOfBoundsException")}
  ELSE IF ~Group_addIndividual(ds, group, individual).ok
  THEN {Throws(ds, "BadIdentifierException")}
  ELSE {Returns(Group_addIndividual(ds, group, individual).ds, <<>>, 0)}

\* DataSet::getNumberOfIndividualsInGroup(group_position)
DataSet_getNumberOfIndividualsInGroup(ds, group_position) ==
  IF group_position >= Len(ds.groups_)
  THEN {Throws(ds, "IndexOutOfBoundsException")}
  ELSE {Returns(ds, <<>>, Len(ds.groups_[group_position + 1].inds))}

\* DataSet::deleteIndividualAtPositionFromGroup(group_position,
\* individual_position)
DataSet_deleteIndividualAtPositionFromGroup(ds, group_position, individual_position) ==
  IF group_position >= Len(ds.groups_)
  THEN {Throws(ds, "IndexOutOfBoundsException")}
  ELSE IF ~Group_removeIndividualAtPosition(ds, group_position, individual_position).ok
  THEN {Throws(ds, "IndexOutOfBoundsException")}
  ELSE {Returns(Group_removeIndividualAtPosition(ds, group_position, individual_position).ds,
                <<>>, 0)}

\* DataSet::addLocality(locality)
DataSet_addLocality(ds, locality) ==
  IF \E i \in 1..Len(ds.localities_) : ds.localities_[i] = locality
  THEN {Throws(ds, "BadIdentifierException")}
  ELSE {Returns([ds EXCEPT !.localities_ = Append(@, locality)], <<>>, 0)}

\* DataSet::getLocalityAtPosition(locality_position): the locality, given
\* as its name.
DataSet_getLocalityAtPosition(ds, locality_position) ==
  IF locality_position >= Len(ds.localities_)
  THEN {Throws(ds, "IndexOutOfBoundsException")}
  ELSE {Returns(ds, <<ds.localities_[locality_position + 1]>>, 0)}

\* DataSet::deleteLocalityAtPosition with the test locality_position >
\* localities_.size().
DataSet_deleteLocalityAtPosition_pastEnd(ds, locality_position) ==
  IF locality_position > Len(ds.localities_)
  THEN {Throws(ds, "IndexOutOfBoundsException")}
  ELSE {Returns([ds EXCEPT !.localities_ = RemoveAt(@, locality_position + 1)], <<>>, 0)}

\* DataSet::deleteLocalityAtPosition(locality_position)
DataSet_deleteLocalityAtPosition(ds, locality_position) ==
  IF locality_position >= Len(ds.localities_)
  THEN {Throws(ds, "IndexOutOfBoundsException")}
  ELSE {Returns([ds EXCEPT !.localities_ = RemoveAt(@, locality_position + 1)], <<>>, 0)}

\* The pointer analyzedLoci_ is 0, points to an AnalyzedLoci ("object") or
\* points to one that was deleted ("deleted"); loci is the number of loci
\* of the AnalyzedLoci.
MaxLoci == 3
NumbersOfLoci == 0..MaxLoci

\* new AnalyzedLoci(number_of_loci)
AnalyzedLoci(number_of_loci) == [at |-> "object", loci |-> number_of_loci]

\* The numbers of loci a read through the pointer p can give: that of the
\* object, or any after its deletion.
lociRead(p) == IF p.at = "object" THEN {p.loci} ELSE NumbersOfLoci

\* DataSet::deleteAnalyzedLoci(): the pointer keeps its value after the
\* delete; a second delete of the same object is undefined.
DataSet_deleteAnalyzedLoci(ds) ==
  IF ds.analyzedLoci_.at = "0" THEN {Returns(ds, <<>>, 0)}
  ELSE IF ds.analyzedLoci_.at = "object"
  THEN {Returns([ds EXCEPT !.analyzedLoci_.at = "deleted"], <<>>, 0)}
  ELSE {Returns(ds, <<>>, 0), Throws(ds, "crash")}

\* DataSet::initAnalyzedLoci(unsigned int number_of_loci)
DataSet_initAnalyzedLoci(ds, number_of_loci) ==
  IF ds.analyzedLoci_.at # "0"
  THEN {Throws(ds, "Exception")}
  ELSE {Returns([ds EXCEPT !.analyzedLoci_ = AnalyzedLoci(number_of_loci)], <<>>, 0)}

\* DataSet::setAnalyzedLoci(analyzedLoci), analyzedLoci given by its number
\* of loci.
DataSet_setAnalyzedLoci(ds, analyzedLoci) ==
  IF ds.analyzedLoci_.at # "0"
  THEN {IF o.raised # "none" THEN o
        ELSE Returns([o.ds EXCEPT !.analyzedLoci_ = AnalyzedLoci(analyzedLoci)], <<>>, 0) :
          o \in DataSet_deleteAnalyzedLoci(ds)}
  ELSE {Returns([ds EXCEPT !.analyzedLoci_ = AnalyzedLoci(analyzedLoci)], <<>>, 0)}

\* DataSet::getNumberOfLoci(): the read of a deleted AnalyzedLoci is
\* undefined.
DataSet_getNumberOfLoci(ds) ==
  IF ds.analyzedLoci_.at = "0" THEN {Throws(ds, "NullPointerException")}
  ELSE {Returns(ds, <<>>, n) : n \in lociRead(ds.analyzedLoci_)}
         \cup (IF ds.analyzedLoci_.at = "deleted" THEN {Throws(ds, "crash")} ELSE {})

\* DataSet::getAnalyzedLoci(): the pointer, when it is not 0.
DataSet_getAnalyzedLoci(ds) ==
  IF ds.analyzedLoci_.at # "0" THEN {Returns(ds, <<>>, 0)}
  ELSE {Throws(ds, "NullPointerException")}

\* DataSet::hasAlleleicData(): 1 for true, 0 for false.
DataSet_hasAlleleicData(ds) ==
  {Returns(ds, <<>>, IF ds.analyzedLoci_.at # "0" THEN 1 ELSE 0)}

\* DataSet::operator=(const DataSet& ds) on the DataSet a, ds another
\* object than a: the localities and the groups of ds are pushed at the
\* back of those of a, and analyzedLoci_ is replaced when ds has one.
DataSet_assign(a, ds) ==
  {Returns([a EXCEPT !.analyzedLoci_ = p,
                     !.localities_ = @ \o ds.localities_,
                     !.groups_ = @ \o ds.groups_], <<>>, 0) :
     p \in IF ds.analyzedLoci_.at = "0" THEN {a.analyzedLoci_}
           ELSE {AnalyzedLoci(n) : n \in lociRead(ds.analyzedLoci_)}}
    \cup (IF ds.analyzedLoci_.at = "deleted" THEN {Throws(a, "crash")} ELSE {})

\* DataSet::operator= of a to itself: ds.localities_.size() and
\* ds.groups_.size() are the sizes of the vectors the loops push to, so a
\* loop over a vector that is not empty goes on until the memory is
\* exhausted.  The DataSet is held as it is after the first round of the
\* loop that does not end.
DataSet_assignSelf(a) ==
  IF a.localities_ # <<>>
  THEN {Throws([o.ds EXCEPT !.localities_ = a.localities_ \o a.localities_,
                            !.groups_ = a.groups_], e) :
          o \in DataSet_assign(a, [a EXCEPT !.groups_ = <<>>]), e \in {"bad_alloc", "crash"}}
  ELSE IF a.groups_ # <<>>
  THEN {Throws(o.ds, e) : o \in DataSet_assign(a, a), e \in {"bad_alloc", "crash"}}
  ELSE DataSet_assign(a, a)

\* DataSet::DataSet(const DataSet& ds): the members start empty, then as
\* operator=.
DataSet_copy(ds) == DataSet_assign(NoDataSet, ds)

(***************************************************************************)
(* Part 3: SequenceStatistics (src/Pop/SequenceStatistics.h).  Only the    *)
(* declarations of the class and their documentation are at hand; the      *)
(* operations are modelled from their documented behaviour.                *)
(*                                                                         *)
(* A double is modelled exactly: a fraction [kind |-> "num", n, d] in      *)
(* lowest terms, or the infinity or the not-a-number that a division by    *)
(* zero produces.                                                          *)
(***************************************************************************)
MaxCount == 3

\* No statistic has been called.
NoStat == [op |-> "none"]

RECURSIVE gcd(_, _)
gcd(a, b) == IF b = 0 THEN a ELSE gcd(b, a % b)

\* The double n / d, for d > 0.
Fraction(n, d) ==
  [kind |-> "num", n |-> n \div gcd(IF n < 0 THEN -n ELSE n, d),
                   d |-> d \div gcd(IF n < 0 THEN -n ELSE n, d)]

toDouble(k) == Fraction(k, 1)

Infinity == [kind |-> "inf", n |-> 1, d |-> 0]

NaN == [kind |-> "nan", n |-> 0, d |-> 0]

isZero(x) == x.kind = "num" /\ x.n = 0

\* x / y on doubles that are not negative.
fdiv(x, y) ==
  IF x.kind = "nan" \/ y.kind = "nan" THEN NaN
  ELSE IF isZero(y) THEN (IF isZero(x) THEN NaN ELSE Infinity)
  ELSE IF y.kind = "inf" THEN (IF x.kind = "inf" THEN NaN ELSE toDouble(0))
  ELSE IF x.kind = "inf" THEN Infinity
  ELSE Fraction(x.n * y.d, x.d * y.n)

\* The value neutralityIndex returns when the index is not defined.
Sentinel == toDouble(-1)

\* The counts of a McDonald-Kreitman table <<Pa, Ps, Da, Ds>>.
MKtables == [1..4 -> 0..MaxCount]

\* The outcome of a statistic that returns the double value; zerodiv tells
\* whether a division by zero was made on the way.
StatReturns(value, zerodiv) == [raised |-> "none", value |-> value, zerodiv |-> zerodiv]

\* neutralityIndex with the test on Ps alone.
neutralityIndex_onlyPs(mktable) ==
  IF mktable[2] = 0 THEN StatReturns(Sentinel, FALSE)
  ELSE StatReturns(fdiv(fdiv(toDouble(mktable[1]), toDouble(mktable[2])),
                        fdiv(toDouble(mktable[3]), toDouble(mktable[4]))),
                   mktable[4] = 0 \/ mktable[3] = 0)

\* SequenceStatistics::neutralityIndex on the table MKtable gave:
\* NI = (Pa / Ps) / (Da / Ds), and -1 if Ps or Da are zero.
neutralityIndex(mktable) ==
  IF mktable[2] = 0 \/ mktable[3] = 0 THEN StatReturns(Sentinel, FALSE)
  ELSE StatReturns(fdiv(fdiv(toDouble(mktable[1]), toDouble(mktable[2])),
                        fdiv(toDouble(mktable[3]), toDouble(mktable[4]))),
                   mktable[4] = 0)

(***************************************************************************)
(* Linkage disequilibrium.  An alignment is the sequence of its sites; a   *)
(* site is the sequence of the symbols the sequences carry there ("-" is   *)
(* the gap).  A signed double is the fraction [kind, n, d] with n < 0.     *)
(***************************************************************************)
MaxSites == 2

Gap == "-"

\* The sites of the alignments handed to the operations: for four
\* sequences, a site without variation, one with a singleton, one with two
\* alleles carried twice each, one with two alleles and a gap, and one with
\* three alleles.
Columns(nseq) ==
  CASE nseq = 0 -> {}
    [] nseq = 1 -> {<<"A">>}
    [] OTHER -> {<<"A", "A", "A", "A">>, <<"A", "A", "A", "C">>,
                 <<"A", "A", "C", "C">>, <<"A", "A", "C", "-">>,
                 <<"A", "A", "C", "G">>}

SequenceCounts == {0, 1, 4}

Alignments ==
  UNION {[nseq : {n}, sites : UNION {[1..k -> Columns(n)] : k \in 0..MaxSites}] :
           n \in SequenceCounts}

\* The values of freqmin handed to the operations, as fractions.
Frequencies == {Fraction(0, 1), Fraction(1, 2)}

\* The number of sequences that carry symbol x at the site.
countOf(site, x) == Cardinality({i \in 1..Len(site) : site[i] = x})

\* The symbols of the site.
statesOf(site) == {site[i] : i \in 1..Len(site)}

\* The count of the least frequent symbol of the site.
minorCount(site) == Min({countOf(site, x) : x \in statesOf(site)})

\* generateLDContainer keeps the site: it has two alleles and no gap, it is
\* not a singleton unless singletons are kept, and its least frequent allele
\* has a frequency that is not less than freqmin.
keptInLD(site, keepsingleton, freqmin) ==
  /\ Gap \notin statesOf(site)
  /\ Cardinality(statesOf(site)) = 2
  /\ keepsingleton \/ minorCount(site) > 1
  /\ ~(minorCount(site) * freqmin.d < freqmin.n * Len(site))

\* The codings of the site generateLDContainer can give: 1 for the most
\* frequent allele and 0 for the other; with equal counts either allele may
\* be taken as the most frequent.
codingsOf(site) ==
  {[i \in 1..Len(site) |-> IF site[i] = major THEN 1 ELSE 0] :
     major \in {x \in statesOf(site) :
                  \A y \in statesOf(site) : countOf(site, y) <= countOf(site, x)}}

\* SequenceStatistics::generateLDContainer: the LD containers it can give,
\* [nseq, positions, sites]: the positions of the kept sites in the
\* alignment and their codings.
RECURSIVE generateLDContainerFrom(_, _, _, _)
generateLDContainerFrom(psc, keepsingleton, freqmin, i) ==
  IF i > Len(psc.sites) THEN {[nseq |-> psc.nseq, positions |-> <<>>, sites |-> <<>>]}
  ELSE IF ~keptInLD(psc.sites[i], keepsingleton, freqmin)
  THEN generateLDContainerFrom(psc, keepsingleton, freqmin, i + 1)
  ELSE {[nseq |-> psc.nseq, positions |-> <<i>> \o rest.positions,
         sites |-> <<coding>> \o rest.sites] :
          coding \in codingsOf(psc.sites[i]),
          rest \in generateLDContainerFrom(psc, keepsingleton, freqmin, i + 1)}

\* generateLDContainer without the test on the number of alleles.
generateLDContainer_everySite(psc, keepsingleton, freqmin) ==
  {[nseq |-> psc.nseq, positions |-> [i \in 1..Len(psc.sites) |-> i],
    sites |-> [i \in 1..Len(psc.sites) |->
                 [k \in 1..psc.nseq |-> IF psc.sites[i][k] = psc.sites[i][1] THEN 1 ELSE 0]]]}

generateLDContainer(psc, keepsingleton, freqmin) ==
  generateLDContainerFrom(psc, keepsingleton, freqmin, 1)

\* The outcome of a statistic that throws.
StatThrows(exception) == [raised |-> exception, value |-> <<>>, zerodiv |-> FALSE]

\* The pairs of sites (i, j), i < j, of n sites, in the order of enumeration.
RECURSIVE sitePairsFrom(_, _, _)
sitePairsFrom(i, j, n) ==
  IF i >= n THEN <<>>
  ELSE IF j > n THEN sitePairsFrom(i + 1, i + 2, n)
  ELSE <<<<i, j>>>> \o sitePairsFrom(i, j + 1, n)

sitePairs(n) == sitePairsFrom(1, 2, n)

\* The sum of the doubles of a vector.
RECURSIVE fsum(_)
fsum(v) ==
  IF v = <<>> THEN toDouble(0)
  ELSE Fraction(v[1].n * fsum(Tail(v)).d + fsum(Tail(v)).n * v[1].d, v[1].d * fsum(Tail(v)).d)

\* The mean of the doubles of a vector that is not empty.
fmean(v) == Fraction(fsum(v).n, fsum(v).d * Len(v))

\* The distance between two kept sites: the difference of their positions.
distance1(ld, pair) == toDouble(ld.positions[pair[2]] - ld.positions[pair[1]])

\* The distance between two kept sites in one sequence: the sites between
\* them where the sequence has a gap are not counted.
distanceInSequence(psc, k, from, to) ==
  (to - from) - Cardinality({i \in (from + 1)..to : psc.sites[i][k] = Gap})

\* The mean over the sequences of the distances between two kept sites.
distance2(psc, ld, pair) ==
  fmean([k \in 1..psc.nseq |->
           toDouble(distanceInSequence(psc, k, ld.positions[pair[1]], ld.positions[pair[2]]))])

\* The number of sequences coded 1 at site x of the LD container.
ones(ld, x) == Cardinality({k \in 1..ld.nseq : ld.sites[x][k] = 1})

\* D times the square of the number of sequences, D = p11 - p1 p2.
scaledD(ld, pair) ==
  Cardinality({k \in 1..ld.nseq : ld.sites[pair[1]][k] = 1 /\ ld.sites[pair[2]][k] = 1}) * ld.nseq
    - ones(ld, pair[1]) * ones(ld, pair[2])

\* Dmax times the square of the number of sequences, chosen by the sign of D.
scaledDmax(ld, pair) ==
  IF scaledD(ld, pair) < 0
  THEN Min({ones(ld, pair[1]) * ones(ld, pair[2]),
            (ld.nseq - ones(ld, pair[1])) * (ld.nseq - ones(ld, pair[2]))})
  ELSE Min({ones(ld, pair[1]) * (ld.nseq - ones(ld, pair[2])),
            (ld.nseq - ones(ld, pair[1])) * ones(ld, pair[2])})

valueD(ld, pair) == Fraction(scaledD(ld, pair), ld.nseq * ld.nseq)

valueDprime(ld, pair) == Fraction(scaledD(ld, pair), scaledDmax(ld, pair))

\* R2 = D^2 / (p1 (1 - p1) p2 (1 - p2))
valueR2(ld, pair) ==
  Fraction(scaledD(ld, pair) * scaledD(ld, pair),
           ones(ld, pair[1]) * (ld.nseq - ones(ld, pair[1]))
             * ones(ld, pair[2]) * (ld.nseq - ones(ld, pair[2])))

\* The pairs of kept sites, in the order of the vectors the pairwise
\* operations return.
pairsOf(ld) == sitePairs(Len(ld.sites))

\* SequenceStatistics::pairwiseDistances1: DimensionException if the number
\* of sites is lower than 2.
pairwiseDistances1(psc, keepsingleton, freqmin) ==
  {IF Len(ld.sites) < 2 THEN StatThrows("DimensionException")
   ELSE StatReturns([p \in 1..Len(pairsOf(ld)) |-> distance1(ld, pairsOf(ld)[p])], FALSE) :
     ld \in generateLDContainer(psc, keepsingleton, freqmin)}

\* SequenceStatistics::pairwiseDistances2
pairwiseDistances2(psc, keepsingleton, freqmin) ==
  {IF Len(ld.sites) < 2 THEN StatThrows("DimensionException")
   ELSE StatReturns([p \in 1..Len(pairsOf(ld)) |-> distance2(psc, ld, pairsOf(ld)[p])], FALSE) :
     ld \in generateLDContainer(psc, keepsingleton, freqmin)}

\* The mean of the vector a pairwise operation gave; its exception goes
\* through.
meanOf(outcomes) ==
  {IF o.raised # "none" THEN o ELSE StatReturns(fmean(o.value), FALSE) : o \in outcomes}

\* SequenceStatistics::meanDistance1
meanDistance1(psc, keepsingleton, freqmin) ==
  meanOf(pairwiseDistances1(psc, keepsingleton, freqmin))

\* SequenceStatistics::meanDistance2
meanDistance2(psc, keepsingleton, freqmin) ==
  meanOf(pairwiseDistances2(psc, keepsingleton, freqmin))

\* SequenceStatistics::pairwiseD: DimensionException if the number of sites
\* or the number of sequences is lower than 2.
pairwiseD(psc, keepsingleton, freqmin) ==
  {IF Len(ld.sites) < 2 \/ ld.nseq < 2 THEN StatThrows("DimensionException")
   ELSE StatReturns([p \in 1..Len(pairsOf(ld)) |-> valueD(ld, pairsOf(ld)[p])], FALSE) :
     ld \in generateLDContainer(psc, keepsingleton, freqmin)}

\* SequenceStatistics::pairwiseDprime
pairwiseDprime(psc, keepsingleton, freqmin) ==
  {IF Len(ld.sites) < 2 \/ ld.nseq < 2 THEN StatThrows("DimensionException")
   ELSE StatReturns([p \in 1..Len(pairsOf(ld)) |-> valueDprime(ld, pairsOf(ld)[p])], FALSE) :
     ld \in generateLDContainer(psc, keepsingleton, freqmin)}

\* SequenceStatistics::pairwiseR2
pairwiseR2(psc, keepsingleton, freqmin) ==
  {IF Len(ld.sites) < 2 \/ ld.nseq < 2 THEN StatThrows("DimensionException")
   ELSE StatReturns([p \in 1..Len(pairsOf(ld)) |-> valueR2(ld, pairsOf(ld)[p])], FALSE) :
     ld \in generateLDContainer(psc, keepsingleton, freqmin)}

\* SequenceStatistics::meanD
meanD(psc, keepsingleton, freqmin) == meanOf(pairwiseD(psc, keepsingleton, freqmin))

\* SequenceStatistics::meanR2
meanR2(psc, keepsingleton, freqmin) == meanOf(pairwiseR2(psc, keepsingleton, freqmin))

(***************************************************************************)
(* Hudson's estimator.  The doubles of the bracket are counted in units of *)
(* the spacing of the doubles there: the middle of two doubles is a double *)
(* again, so the middle of two neighbours is one of the two.               *)
(***************************************************************************)
MaxBracket == 4

\* The values of cinf and csup handed to hudson87.
BracketValues == 0..MaxBracket

\* The values of precision handed to hudson87.
Precisions == 0..2

\* What the comparison of rightHandHudson_(c, n) with leftHandHudson_(psc)
\* can give over the bracket: any function of c, monotonic or not.
Comparisons == [BracketValues -> BOOLEAN]

\* (cinf + csup) / 2, as the double it gives.
middle(cinf, csup) == (cinf + csup) \div 2

\* One turn of the bisection of hudson87: it stops when the width of the
\* bracket is below precision, and otherwise halves the bracket on the side
\* the comparison tells.
bisect(st) ==
  IF st.csup - st.cinf < st.precision
  THEN [st EXCEPT !.pc = "done", !.value = middle(st.cinf, st.csup)]
  ELSE IF st.greater[middle(st.cinf, st.csup)]
  THEN [st EXCEPT !.cinf = middle(st.cinf, st.csup)]
  ELSE [st EXCEPT !.csup = middle(st.cinf, st.csup)]

(***************************************************************************)
(* Specification.                                                          *)
(***************************************************************************)
PermInit ==
  /\ pmgc \in Collections
  /\ groups \in GroupSets
  /\ names = NoNames
  /\ op = "none"
  /\ res = NoResult
  /\ dataset = NoDataSet
  /\ call = NoCall
  /\ stat = NoStat

CallPermuteMultiG ==
  /\ op = "none"
  /\ \E r \in permuteMultiG(pmgc) : res' = copyGroupNames(names, r)
  /\ op' = "permuteMultiG"
  /\ UNCHANGED <<pmgc, groups, names, dataset, call, stat>>

CallPermuteMonoG ==
  /\ op = "none"
  /\ \E r \in permuteMonoG(pmgc, groups) :
        res' = updateGroupNames(names, getAllGroupsIds(pmgc), r)
  /\ op' = "permuteMonoG"
  /\ UNCHANGED <<pmgc, groups, names, dataset, call, stat>>

CallPermuteIntraGroupMonoG ==
  /\ op = "none"
  /\ \E r \in permuteIntraGroupMonoG(pmgc, groups) :
        res' = updateGroupNames(names, getAllGroupsIds(pmgc), r)
  /\ op' = "permuteIntraGroupMonoG"
  /\ UNCHANGED <<pmgc, groups, names, dataset, call, stat>>

CallPermuteAlleles ==
  /\ op = "none"
  /\ \E r \in permuteAlleles(pmgc, groups) :
        res' = updateGroupNames(names, getAllGroupsIds(pmgc), r)
  /\ op' = "permuteAlleles"
  /\ UNCHANGED <<pmgc, groups, names, dataset, call, stat>>

CallPermuteIntraGroupAlleles ==
  /\ op = "none"
  /\ \E r \in permuteIntraGroupAlleles(pmgc, groups) :
        res' = updateGroupNames(names, getAllGroupsIds(pmgc), r)
  /\ op' = "permuteIntraGroupAlleles"
  /\ UNCHANGED <<pmgc, groups, names, dataset, call, stat>>

CallExtractGroups ==
  /\ op = "none"
  /\ res' = extractGroups(pmgc, names, groups)
  /\ op' = "extractGroups"
  /\ UNCHANGED <<pmgc, groups, names, dataset, call, stat>>

PermNext ==
  \/ CallPermuteMultiG
  \/ CallPermuteMonoG
  \/ CallPermuteIntraGroupMonoG
  \/ CallPermuteAlleles
  \/ CallPermuteIntraGroupAlleles
  \/ CallExtractGroups

SpecPerm == PermInit /\ [][PermNext]_permVars

\* Label permutation alone, on the same inputs.
LabelNext ==
  \/ CallPermuteMultiG

SpecLabel == PermInit /\ [][LabelNext]_permVars

\* Cross-group allele permutation alone, on the same inputs.
AllelesNext ==
  \/ CallPermuteAlleles

SpecAlleles == PermInit /\ [][AllelesNext]_permVars

\* The inputs with every name table the input collection can have.
NamedInit ==
  /\ pmgc \in Collections
  /\ groups \in GroupSets
  /\ names \in NameTables(pmgc)
  /\ op = "none"
  /\ res = NoResult
  /\ dataset = NoDataSet
  /\ call = NoCall
  /\ stat = NoStat

\* Group extraction alone.
ExtractNext ==
  \/ CallExtractGroups

SpecExtract == NamedInit /\ [][ExtractNext]_permVars

\* The six operations on the collections of one locus, with every name
\* table.
NamesInit ==
  /\ pmgc \in UNION {[1..n -> Records(1)] : n \in 0..MaxRecords}
  /\ groups \in GroupSets
  /\ names \in NameTables(pmgc)
  /\ op = "none"
  /\ res = NoResult
  /\ dataset = NoDataSet
  /\ call = NoCall
  /\ stat = NoStat

SpecNames == NamesInit /\ [][PermNext]_permVars

(***************************************************************************)
(* Specification of Part 2: calls on one DataSet, starting empty.  A call  *)
(* is recorded in call: the member function, the group id, the position    *)
(* and the vector it was given, and its outcome.  After a fault no call    *)
(* follows.                                                                *)
(***************************************************************************)
DataSetInit ==
  /\ dataset = NoDataSet
  /\ call = NoCall
  /\ pmgc = <<>>
  /\ groups = {}
  /\ names = NoNames
  /\ op = "none"
  /\ res = NoResult
  /\ stat = NoStat

Alive == call.raised \notin {"crash", "terminate"}

\* The bounds of the model on a DataSet.
WithinBounds(ds) ==
  /\ Len(ds.groups_) <= MaxSize
  /\ Len(ds.localities_) <= MaxSize
  /\ \A i \in 1..Len(ds.groups_) : ds.groups_[i].id \in DataSetGroupIds

\* The call fn, given group id id, position pos and vector list, had
\* outcome o.
Recorded(fn, id, pos, list, o) ==
  /\ dataset' = o.ds
  /\ call' = [op |-> fn, id |-> id, pos |-> pos, list |-> list,
              raised |-> o.raised, name |-> o.name, num |-> o.num]
  /\ UNCHANGED <<permVars, stat>>

\* The same, for the calls that keep the DataSet within the bounds.
Called(fn, id, pos, list, o) ==
  /\ WithinBounds(o.ds)
  /\ Recorded(fn, id, pos, list, o)

CallAddEmptyGroup ==
  /\ Alive
  /\ \E id \in DataSetGroupIds :
       \E o \in DataSet_addEmptyGroup(dataset, id) : Called("addEmptyGroup", id, 0, <<>>, o)

CallSetGroupName ==
  /\ Alive
  /\ \E id \in DataSetGroupIds : \E group_name \in DataSetGroupNames :
       \E o \in DataSet_setGroupName(dataset, id, group_name) :
          Called("setGroupName", id, 0, <<>>, o)

CallGetGroupName ==
  /\ Alive
  /\ \E id \in DataSetGroupIds :
       \E o \in DataSet_getGroupName(dataset, id) : Called("getGroupName", id, 0, <<>>, o)

\* Groups and their names.
GroupNamesNext ==
  \/ CallAddEmptyGroup
  \/ CallSetGroupName
  \/ CallGetGroupName

SpecGroupNames == DataSetInit /\ [][GroupNamesNext]_dsVars

\* The sequences of at most n elements of S.
SeqsUpTo(S, n) == UNION {[1..k -> S] : k \in 0..n}

\* The lists of individuals a group handed to addGroup holds.
IndividualLists ==
  {v \in SeqsUpTo(IndividualIds, Cardinality(IndividualIds)) :
     \A i, k \in 1..Len(v) : v[i] = v[k] => i = k}

CallAddGroup ==
  /\ Alive
  /\ \E id \in DataSetGroupIds : \E inds \in IndividualLists :
       \E o \in DataSet_addGroup(dataset, [Group(id) EXCEPT !.inds = inds]) :
          Called("addGroup", id, 0, <<>>, o)

CallDeleteGroupAtPosition ==
  /\ Alive
  /\ \E pos \in 0..MaxSize :
       \E o \in DataSet_deleteGroupAtPosition(dataset, pos) :
          Called("deleteGroupAtPosition", 0, pos, <<>>, o)

CallMergeTwoGroups ==
  /\ Alive
  /\ \E source_id \in DataSetGroupIds : \E target_id \in DataSetGroupIds :
       \E o \in DataSet_mergeTwoGroups(dataset, source_id, target_id) :
          Called("mergeTwoGroups", source_id, 0, <<target_id>>, o)

CallMergeGroups ==
  /\ Alive
  /\ \E group_ids \in SeqsUpTo(DataSetGroupIds, 2) :
       \E o \in DataSet_mergeGroups(dataset, group_ids) :
          Called("mergeGroups", 0, 0, group_ids, o)

CallSplitGroup ==
  /\ Alive
  /\ \E id \in DataSetGroupIds :
       \E individuals_selection \in SeqsUpTo(0..Cardinality(IndividualIds), 2) :
          \E o \in DataSet_splitGroup(dataset, id, individuals_selection) :
             Called("splitGroup", id, 0, individuals_selection, o)

\* The operations that add, delete, merge and split groups.
GroupsNext ==
  \/ CallAddGroup
  \/ CallAddEmptyGroup
  \/ CallDeleteGroupAtPosition
  \/ CallMergeTwoGroups
  \/ CallMergeGroups
  \/ CallSplitGroup

SpecGroups == DataSetInit /\ [][GroupsNext]_dsVars

\* The positions handed to the calls: those of a full list, and one more.
Positions == 0..MaxSize

\* The positions of individuals handed to the calls.
IndividualPositions == 0..Cardinality(IndividualIds)

CallGetGroupAtPosition ==
  /\ Alive
  /\ \E pos \in Positions :
       \E o \in DataSet_getGroupAtPosition(dataset, pos) :
          Called("getGroupAtPosition", 0, pos, <<>>, o)

CallAddIndividualToGroup ==
  /\ Alive
  /\ \E pos \in Positions : \E individual \in IndividualIds :
       \E o \in DataSet_addIndividualToGroup(dataset, pos, individual) :
          Called("addIndividualToGroup", 0, pos, <<>>, o)

CallGetNumberOfIndividualsInGroup ==
  /\ Alive
  /\ \E pos \in Positions :
       \E o \in DataSet_getNumberOfIndividualsInGroup(dataset, pos) :
          Called("getNumberOfIndividualsInGroup", 0, pos, <<>>, o)

CallDeleteIndividualAtPositionFromGroup ==
  /\ Alive
  /\ \E pos \in Positions : \E individual_position \in IndividualPositions :
       \E o \in DataSet_deleteIndividualAtPositionFromGroup(dataset, pos, individual_position) :
          Called("deleteIndividualAtPositionFromGroup", 0, pos, <<individual_position>>, o)

CallAddLocality ==
  /\ Alive
  /\ \E locality \in LocalityNames :
       \E o \in DataSet_addLocality(dataset, locality) :
          Called("addLocality", 0, 0, <<>>, o)

CallGetLocalityAtPosition ==
  /\ Alive
  /\ \E pos \in Positions :
       \E o \in DataSet_getLocalityAtPosition(dataset, pos) :
          Called("getLocalityAtPosition", 0, pos, <<>>, o)

CallDeleteLocalityAtPosition ==
  /\ Alive
  /\ \E pos \in Positions :
       \E o \in DataSet_deleteLocalityAtPosition(dataset, pos) :
          Called("deleteLocalityAtPosition", 0, pos, <<>>, o)

\* The operations that take the position of a group or of a locality, with
\* those that fill the two lists.
PositionsNext ==
  \/ CallAddEmptyGroup
  \/ CallAddLocality
  \/ CallGetGroupAtPosition
  \/ CallDeleteGroupAtPosition
  \/ CallAddIndividualToGroup
  \/ CallGetNumberOfIndividualsInGroup
  \/ CallDeleteIndividualAtPositionFromGroup
  \/ CallGetLocalityAtPosition
  \/ CallDeleteLocalityAtPosition

SpecPositions == DataSetInit /\ [][PositionsNext]_dsVars

(***************************************************************************)
(* Vocabulary of the properties.                                           *)
(***************************************************************************)
PermutationOps ==
  {"permuteMultiG", "permuteMonoG", "permuteIntraGroupMonoG",
   "permuteAlleles", "permuteIntraGroupAlleles"}

GroupSetOps == PermutationOps \ {"permuteMultiG"}

\* The call returned, and returned a collection.
Returned == res.status = "ok" /\ res.alloc

Range(s) == {s[i] : i \in 1..Len(s)}

Occurrences(s, x) == Cardinality({i \in 1..Len(s) : s[i] = x})

SameBag(s, t) ==
  /\ Len(s) = Len(t)
  /\ \A x \in Range(s) \cup Range(t) : Occurrences(s, x) = Occurrences(t, x)

\* The records of group g, in collection order.
OfGroup(c, g) == SelectSeq(c, LAMBDA r : r.grp = g)

\* The genotype of record r at locus j (none for a record that holds no
\* genotype vector).
GenotypeAt(r, j) == IF j \in DOMAIN r.gen THEN r.gen[j] ELSE Missing

\* The locus-j genotypes of the records of c, in collection order.
GenotypesAt(c, j) == [i \in 1..Len(c) |-> GenotypeAt(c[i], j)]

Loci == 1..getNumberOfLoci(pmgc)

\* The number of selected records among the first i records of the input.
SelectedRank(i) == Len(Selected(SubSeq(pmgc, 1, i), groups))

(***************************************************************************)
(* Properties of the permutation engine.                                   *)
(***************************************************************************)

\* C1: each of the five permutation operations completes without failure
\* and returns a collection, for every well-formed input collection and
\* every group-id set.
C1_NeverFails ==
  op \in PermutationOps => res.status = "ok" /\ res.alloc /\ ~res.indet

\* C2: permuteMultiG keeps the number of records, keeps the number of
\* occurrences of every group id, and keeps the genotype stored at every
\* record index.
C2_LabelPermutation ==
  op = "permuteMultiG" =>
    /\ Returned
    /\ Len(res.recs) = Len(pmgc)
    /\ \A g \in GroupIds : Len(OfGroup(res.recs, g)) = Len(OfGroup(pmgc, g))
    /\ \A i \in 1..Len(pmgc) :
         /\ res.recs[i].grp \in GroupIds
         /\ res.recs[i].gen = pmgc[i].gen

\* A label permutation that moved a group id: some record of the output
\* carries another group id than the record at the same index of the input.
C2_Witness ==
  /\ op = "permuteMultiG"
  /\ Returned
  /\ \E i \in 1..Len(pmgc) : res.recs[i].grp # pmgc[i].grp

\* C3: the collection returned by permuteMonoG, permuteIntraGroupMonoG,
\* permuteAlleles or permuteIntraGroupAlleles has as many records as the
\* input, for every group-id set.
C3_RecordCount ==
  (op \in GroupSetOps /\ Returned) => Len(res.recs) = Len(pmgc)

\* C4: in the collection returned by an operation that takes a group-id
\* set, every input record whose group id is not in the set occurs exactly
\* as often as in the input, with its group id and its genotypes.
C4_UnselectedPassThrough ==
  (op \in GroupSetOps /\ Returned) =>
    \A r \in Range(pmgc) \cup Range(res.recs) :
       r.grp \notin groups => Occurrences(res.recs, r) = Occurrences(pmgc, r)

\* C5: in the collection returned by permuteIntraGroupMonoG, for every
\* selected group g and every locus j, the locus-j genotypes of the records
\* of group g are, as a multiset, those of the input records of group g.
C5_IntraGroupGenotypes ==
  (op = "permuteIntraGroupMonoG" /\ Returned) =>
    \A g \in groups : \A j \in Loci :
       SameBag(GenotypesAt(OfGroup(res.recs, g), j), GenotypesAt(OfGroup(pmgc, g), j))

\* C6: in the collection returned by permuteIntraGroupAlleles (a call that
\* read no indeterminate value), for every selected group g and every locus
\* j, the allele indices carried at locus j by the records of group g are,
\* as a multiset, those carried by the input records of group g.
C6_IntraGroupAlleles ==
  (op = "permuteIntraGroupAlleles" /\ Returned /\ ~res.indet) =>
    \A g \in groups : \A j \in Loci :
       SameBag(flatten(GenotypesAt(OfGroup(res.recs, g), j)),
               flatten(GenotypesAt(OfGroup(pmgc, g), j)))

\* The individual that is the k-th record of group g has, in the output c,
\* at every locus as many alleles as in the input.
SamePloidy(c, g, k) ==
  /\ k <= Len(OfGroup(c, g))
  /\ \A j \in Loci :
       Len(GenotypeAt(OfGroup(c, g)[k], j)) = Len(GenotypeAt(OfGroup(pmgc, g)[k], j))

\* C7: in the collection returned by permuteAlleles or
\* permuteIntraGroupAlleles, every selected individual has at every locus
\* as many alleles (0 for missing, 1 or 2) as in the input.
C7_AllelePermutationPloidy ==
  (op \in {"permuteAlleles", "permuteIntraGroupAlleles"} /\ Returned) =>
    \A g \in groups : \A k \in 1..Len(OfGroup(pmgc, g)) : SamePloidy(res.recs, g, k)

\* C8: in the collection returned by permuteMonoG or
\* permuteIntraGroupMonoG, every selected individual has at every locus as
\* many alleles as in the input.
C8_GenotypePermutationPloidy ==
  (op \in {"permuteMonoG", "permuteIntraGroupMonoG"} /\ Returned) =>
    \A g \in groups : \A k \in 1..Len(OfGroup(pmgc, g)) : SamePloidy(res.recs, g, k)

\* C9: after permuteMonoG, for every selected record of the input and
\* every locus j, the output has a record at the same position whose
\* locus-j genotype is missing exactly if the input record's is.
C9_MissingInPlace ==
  op = "permuteMonoG" =>
    \A i \in 1..Len(pmgc) : pmgc[i].grp \in groups =>
       /\ Returned
       /\ i <= Len(res.recs)
       /\ \A j \in Loci :
            (GenotypeAt(res.recs[i], j) = Missing) <=> (pmgc[i].gen[j] = Missing)

\* C10: after permuteMonoG, every input record has an output record at
\* its position with its group id; the k-th selected record carries at
\* every locus the k-th entry of that locus's shuffled list; for every
\* locus the genotypes of the selected output records are, as a multiset,
\* those of the selected input records.
C10_PerLocusPermutation ==
  op = "permuteMonoG" =>
    \A i \in 1..Len(pmgc) :
       /\ Returned
       /\ Len(res.recs) = Len(pmgc)
       /\ res.recs[i].grp = pmgc[i].grp
       /\ pmgc[i].grp \in groups =>
            \A j \in Loci : GenotypeAt(res.recs[i], j) = res.shuf[j][SelectedRank(i)]
       /\ \A j \in Loci :
            SameBag(GenotypesAt(Selected(res.recs, groups), j),
                    GenotypesAt(Selected(pmgc, groups), j))

\* The number of alleles the selected records before record i carry at
\* locus j in the input: the consumption index of locus j when the
\* rebuilding loop reaches record i.
ConsumedBefore(i, j) ==
  Len(flatten(GenotypesAt(Selected(SubSeq(pmgc, 1, i - 1), groups), j)))

\* C11: permuteAlleles returns without reading past the end of a pool; at
\* every locus j the allele indices of the selected output records are, as
\* a multiset, those of the selected input records; every selected record
\* takes the entries of the shuffled pool from the consumption index on, as
\* many as it has alleles in the input, and the alleles taken by all the
\* selected records are as many as the pool holds.
C11_AllelesConserved ==
  op = "permuteAlleles" =>
    /\ Returned
    /\ ~res.indet
    /\ Len(res.recs) = Len(pmgc)
    /\ \A j \in Loci :
         /\ SameBag(flatten(GenotypesAt(Selected(res.recs, groups), j)),
                    flatten(GenotypesAt(Selected(pmgc, groups), j)))
         /\ Len(flatten(GenotypesAt(Selected(res.recs, groups), j))) = Len(res.shuf[j])
         /\ \A i \in 1..Len(pmgc) : pmgc[i].grp \in groups =>
              SameBag(GenotypeAt(res.recs[i], j),
                      SubSeq(res.shuf[j], ConsumedBefore(i, j) + 1,
                             ConsumedBefore(i, j) + Len(pmgc[i].gen[j])))

\* An allele permutation that moved an allele: a selected record carries
\* at some locus another set of alleles than in the input.
C11_Witness ==
  /\ op = "permuteAlleles"
  /\ Returned
  /\ \E i \in 1..Len(pmgc) : \E j \in Loci :
       /\ pmgc[i].grp \in groups
       /\ Range(GenotypeAt(res.recs[i], j)) # Range(pmgc[i].gen[j])

\* The sum of the sizes, in collection c, of the groups of the set G.
RECURSIVE SumOfGroupSizes(_, _)
SumOfGroupSizes(c, G) ==
  IF G = {} THEN 0
  ELSE Len(OfGroup(c, Min(G))) + SumOfGroupSizes(c, G \ {Min(G)})

\* C12: extractGroups returns a collection in which every record has a
\* group id of the set; it has as many records as the groups of the set
\* have in the input; every input record of a group of the set occurs in
\* it as often as in the input, with its group id and its genotype at
\* every locus, and it holds no other record.
C12_ExtractGroups ==
  op = "extractGroups" =>
    /\ Returned
    /\ \A i \in 1..Len(res.recs) : res.recs[i].grp \in groups
    /\ Len(res.recs) = SumOfGroupSizes(pmgc, groups)
    /\ \A r \in Range(pmgc) \cup Range(res.recs) :
         r.grp \in groups => Occurrences(res.recs, r) = Occurrences(pmgc, r)

\* An extraction that kept a record and dropped another.
C12_Witness ==
  /\ op = "extractGroups"
  /\ Returned
  /\ Len(res.recs) > 0
  /\ Len(res.recs) < Len(pmgc)

AllOps == PermutationOps \cup {"extractGroups"}

\* The value of a decimal digit character.
DigitValue(ch) == CHOOSE v \in 0..9 : DigitChars[v + 1] = ch

\* The number a sequence of decimal digits denotes.
RECURSIVE DecimalValue(_)
DecimalValue(str) ==
  IF str = <<>> THEN 0
  ELSE 10 * DecimalValue(SubSeq(str, 1, Len(str) - 1)) + DigitValue(str[Len(str)])

\* str is the decimal string of n: digits only, at least one, no leading
\* zero, denoting n.
IsDecimalOf(str, n) ==
  /\ Len(str) > 0
  /\ \A i \in 1..Len(str) : str[i] \in Range(DigitChars)
  /\ Len(str) > 1 => str[1] # "0"
  /\ DecimalValue(str) = n

\* The names of the collection p agree with those of the input for every
\* group id a record of p carries: the name the input has for the id, the
\* decimal string of the id when the input has none.
NamesAgree(p) ==
  \A id \in getAllGroupsIds(p.recs) :
     IF id \in DOMAIN names THEN getGroupName(p.names, id) = names[id]
     ELSE IsDecimalOf(getGroupName(p.names, id), id)

\* C13: the collection returned by a permutation operation or by
\* extractGroups gives, for every group id occurring among its records, the
\* name the input gives for that id (the stringified id when the input has
\* no name for it).
C13_GroupNames ==
  (op \in AllOps /\ Returned) => NamesAgree(res)

\* A returned collection, named by the closing loop of an operation, with
\* a group the input has a name for and a group it has none for.
C13_Witness ==
  /\ op \in AllOps \ {"permuteMultiG"}
  /\ Returned
  /\ \E id \in getAllGroupsIds(res.recs) : id \in DOMAIN names
  /\ \E id \in getAllGroupsIds(res.recs) : id \notin DOMAIN names

\* The results operation o can give on the inputs of the state in a build
\* that evaluates the two arguments of lines 242 and 331 in order ord.
OutcomesOf(o, ord) ==
  CASE o = "permuteMultiG" ->
         {copyGroupNames(names, r) : r \in permuteMultiG(pmgc)}
    [] o = "permuteMonoG" ->
         {updateGroupNames(names, getAllGroupsIds(pmgc), r) :
            r \in permuteMonoG(pmgc, groups)}
    [] o = "permuteIntraGroupMonoG" ->
         {updateGroupNames(names, getAllGroupsIds(pmgc), r) :
            r \in permuteIntraGroupMonoG(pmgc, groups)}
    [] o = "permuteAlleles" ->
         {updateGroupNames(names, getAllGroupsIds(pmgc), r) :
            r \in UNION {buildAlleles(pmgc, groups, sh, ord, 1,
                                      [j \in 1..Len(sh) |-> 0],
                                      [EmptyContainer EXCEPT !.shuf = sh]) :
                           sh \in shuffleEach(allelesOf(pmgc, groups))}}
    [] o = "permuteIntraGroupAlleles" ->
         {updateGroupNames(names, getAllGroupsIds(pmgc), r) :
            r \in intraGroupAllelesLoop(pmgc, groups, groups, ord,
                                        [j \in 1..getNumberOfLoci(pmgc) |-> <<>>],
                                        EmptyContainer)}
    [] OTHER -> {extractGroups(pmgc, names, groups)}

\* C15: the result of an operation is a function of the operation, its
\* inputs and the lists std::shuffle returned, in call order: in one build,
\* every result the operation can give on the inputs of the state with the
\* shuffle outcomes of the result it gave is that result.
C15_Deterministic ==
  op \in AllOps =>
    \A ord \in ArgumentOrders : res \in OutcomesOf(op, ord) =>
       \A r \in OutcomesOf(op, ord) : r.shuf = res.shuf => r = res

\* The same for the operations other than permuteIntraGroupAlleles.
DeterministicButIntraGroupAlleles ==
  op = "permuteIntraGroupAlleles" \/ C15_Deterministic

(***************************************************************************)
(* Properties of DataSet.  A property of a call relates the DataSet before *)
(* the call (dataset), the record of the call (call') and the DataSet      *)
(* after it (dataset').                                                    *)
(***************************************************************************)

\* The decimal digits of 2^32 - 1.
UIntMaxDigits == <<"4", "2", "9", "4", "9", "6", "7", "2", "9", "5">>

\* str is the decimal string of the group id id.
IsDecimalOfId(str, id) ==
  IF id = UIntMax THEN str = UIntMaxDigits ELSE IsDecimalOf(str, id)

\* The group of ds with id id.
GroupOfId(ds, id) == ds.groups_[Min(PositionsOfId(ds, id)) + 1]

\* C16: getGroupName(id), for an id a group has, returns and leaves the
\* DataSet as it is; it returns the name of the group when that name is
\* not empty, the decimal string of id when it is empty.
C16_GroupNameFallback ==
  [][(call'.op = "getGroupName" /\ PositionsOfId(dataset, call'.id) # {}) =>
       /\ call'.raised = "none"
       /\ dataset' = dataset
       /\ IF GroupOfId(dataset, call'.id).name # <<>>
          THEN call'.name = GroupOfId(dataset, call'.id).name
          ELSE IsDecimalOfId(call'.name, call'.id)]_dsVars

\* A name lookup that fell back to a decimal string of several digits, in
\* a DataSet that also has a named group.
C16_Witness ==
  /\ call.op = "getGroupName"
  /\ call.raised = "none"
  /\ PositionsOfId(dataset, call.id) # {}
  /\ GroupOfId(dataset, call.id).name = <<>>
  /\ Len(call.name) > 1
  /\ \E i \in 1..Len(dataset.groups_) : dataset.groups_[i].name # <<>>

\* C17: a name lookup for an id no group has raises
\* GroupNotFoundException: getGroupName raises it, setGroupName raises it
\* and leaves the DataSet as it is.
C17_UnknownGroupName ==
  [][(call'.op \in {"getGroupName", "setGroupName"}
        /\ PositionsOfId(dataset, call'.id) = {}) =>
       /\ call'.raised = "GroupNotFoundException"
       /\ dataset' = dataset]_dsVars

\* The part of C17 about setGroupName.
SetUnknownGroupName ==
  [][(call'.op = "setGroupName" /\ PositionsOfId(dataset, call'.id) = {}) =>
       /\ call'.raised = "GroupNotFoundException"
       /\ dataset' = dataset]_dsVars

\* No two groups of the DataSet have the same id.
GroupIdsUnique ==
  \A i, k \in 1..Len(dataset.groups_) :
     dataset.groups_[i].id = dataset.groups_[k].id => i = k

\* addGroup and addEmptyGroup, given an id a group has, raise
\* BadIdentifierException and leave the groups as they are.
IdInUseRefused ==
  (call'.op \in {"addGroup", "addEmptyGroup"} /\ PositionsOfId(dataset, call'.id) # {}) =>
    /\ call'.raised = "BadIdentifierException"
    /\ dataset'.groups_ = dataset.groups_

\* C18: in every state reached by calls of addGroup, addEmptyGroup,
\* deleteGroupAtPosition, mergeTwoGroups, mergeGroups and splitGroup no two
\* groups have the same id; addGroup and addEmptyGroup with an id in use
\* raise BadIdentifierException and leave the list of groups unchanged.
C18_UniqueGroupIds == []GroupIdsUnique /\ [][IdInUseRefused]_dsVars

\* An id in use was refused by a DataSet of two groups or more.
C18_Witness ==
  /\ call.op \in {"addGroup", "addEmptyGroup"}
  /\ call.raised = "BadIdentifierException"
  /\ Len(dataset.groups_) >= 2

\* C20: splitGroup, given an id no group has, raises
\* GroupNotFoundException; given the id of a group and a selection with an
\* index that is not a position of an individual of the group, it raises
\* IndexOutOfBoundsException; in both cases the DataSet is left as it is:
\* no group is added and every group keeps its individuals.
C20_SplitGroupRefuses ==
  [][call'.op = "splitGroup" =>
       /\ PositionsOfId(dataset, call'.id) = {} =>
            /\ call'.raised = "GroupNotFoundException"
            /\ dataset' = dataset
       /\ (/\ PositionsOfId(dataset, call'.id) # {}
           /\ \E i \in 1..Len(call'.list) :
                call'.list[i] >= Len(GroupOfId(dataset, call'.id).inds)) =>
            /\ call'.raised = "IndexOutOfBoundsException"
            /\ dataset' = dataset]_dsVars

\* A selection was refused for its second index, the first one being a
\* position of an individual of the group.
C20_Witness ==
  /\ call.op = "splitGroup"
  /\ call.raised = "IndexOutOfBoundsException"
  /\ PositionsOfId(dataset, call.id) # {}
  /\ Len(call.list) = 2
  /\ call.list[1] < Len(GroupOfId(dataset, call.id).inds)
  /\ call.list[2] >= Len(GroupOfId(dataset, call.id).inds)

\* The operations that take the position of a group.
GroupPositionOps ==
  {"getGroupAtPosition", "deleteGroupAtPosition", "addIndividualToGroup",
   "getNumberOfIndividualsInGroup", "deleteIndividualAtPositionFromGroup"}

\* The operations that take the position of a locality.
LocalityPositionOps == {"getLocalityAtPosition", "deleteLocalityAtPosition"}

\* The call that has just been made was given a position that is not one
\* of the list it indexes, as the list was before the call.
PositionOutOfBounds ==
  \/ call'.op \in GroupPositionOps /\ call'.pos >= Len(dataset.groups_)
  \/ call'.op \in LocalityPositionOps /\ call'.pos >= Len(dataset.localities_)

\* C19: an operation given the position of a group that is greater than or
\* equal to the number of groups, or the position of a locality that is
\* greater than or equal to the number of localities, raises
\* IndexOutOfBoundsException and leaves the DataSet as it was.
C19_PositionOutOfBounds ==
  [][PositionOutOfBounds =>
       /\ call'.raised = "IndexOutOfBoundsException"
       /\ dataset' = dataset]_dsVars

\* One group with one individual and one locality are held, and
\* deleteLocalityAtPosition(1) was refused with both still there.
C19_Witness ==
  /\ call.op = "deleteLocalityAtPosition"
  /\ call.pos = Len(dataset.localities_)
  /\ call.raised = "IndexOutOfBoundsException"
  /\ Len(dataset.localities_) = 1
  /\ Len(dataset.groups_) = 1
  /\ Len(dataset.groups_[1].inds) = 1

(***************************************************************************)
(* Specification of Part 3: one call of a statistic.                       *)
(***************************************************************************)
StatInit ==
  /\ stat = NoStat
  /\ pmgc = <<>>
  /\ groups = {}
  /\ names = NoNames
  /\ op = "none"
  /\ res = NoResult
  /\ dataset = NoDataSet
  /\ call = NoCall

CallNeutralityIndex ==
  /\ stat.op = "none"
  /\ \E mktable \in MKtables :
       stat' = [op |-> "neutralityIndex", mktable |-> mktable,
                result |-> neutralityIndex(mktable)]
  /\ UNCHANGED <<permVars, dsVars>>

NeutralityNext == CallNeutralityIndex

SpecNeutrality == StatInit /\ [][NeutralityNext]_statVars

\* C21: neutralityIndex returns -1 whenever Ps is zero or Da is zero,
\* whatever the other counts are, without raising and without dividing by
\* zero.
C21_NeutralityIndexSentinel ==
  (stat.op = "neutralityIndex" /\ (stat.mktable[2] = 0 \/ stat.mktable[3] = 0)) =>
     /\ stat.result.raised = "none"
     /\ stat.result.value = Sentinel
     /\ ~stat.result.zerodiv

\* neutralityIndex returned -1 for a table with Da = 0 and the other
\* counts positive.
C21_Witness ==
  /\ stat.op = "neutralityIndex"
  /\ stat.mktable = <<1, 2, 0, 3>>
  /\ stat.result.value = Sentinel

\* The call fn of a linkage-disequilibrium operation on psc had outcome o.
CalledLD(fn, psc, keepsingleton, freqmin, o) ==
  /\ stat' = [op |-> fn, psc |-> psc, keepsingleton |-> keepsingleton,
              freqmin |-> freqmin, result |-> o]
  /\ UNCHANGED <<permVars, dsVars>>

CallPairwiseDistances1 ==
  /\ stat.op = "none"
  /\ \E psc \in Alignments : \E keepsingleton \in BOOLEAN : \E freqmin \in Frequencies :
       \E o \in pairwiseDistances1(psc, keepsingleton, freqmin) :
          CalledLD("pairwiseDistances1", psc, keepsingleton, freqmin, o)

CallPairwiseDistances2 ==
  /\ stat.op = "none"
  /\ \E psc \in Alignments : \E keepsingleton \in BOOLEAN : \E freqmin \in Frequencies :
       \E o \in pairwiseDistances2(psc, keepsingleton, freqmin) :
          CalledLD("pairwiseDistances2", psc, keepsingleton, freqmin, o)

CallMeanDistance1 ==
  /\ stat.op = "none"
  /\ \E psc \in Alignments : \E keepsingleton \in BOOLEAN : \E freqmin \in Frequencies :
       \E o \in meanDistance1(psc, keepsingleton, freqmin) :
          CalledLD("meanDistance1", psc, keepsingleton, freqmin, o)

CallMeanDistance2 ==
  /\ stat.op = "none"
  /\ \E psc \in Alignments : \E keepsingleton \in BOOLEAN : \E freqmin \in Frequencies :
       \E o \in meanDistance2(psc, keepsingleton, freqmin) :
          CalledLD("meanDistance2", psc, keepsingleton, freqmin, o)

CallPairwiseD ==
  /\ stat.op = "none"
  /\ \E psc \in Alignments : \E keepsingleton \in BOOLEAN : \E freqmin \in Frequencies :
       \E o \in pairwiseD(psc, keepsingleton, freqmin) :
          CalledLD("pairwiseD", psc, keepsingleton, freqmin, o)

CallPairwiseDprime ==
  /\ stat.op = "none"
  /\ \E psc \in Alignments : \E keepsingleton \in BOOLEAN : \E freqmin \in Frequencies :
       \E o \in pairwiseDprime(psc, keepsingleton, freqmin) :
          CalledLD("pairwiseDprime", psc, keepsingleton, freqmin, o)

CallPairwiseR2 ==
  /\ stat.op = "none"
  /\ \E psc \in Alignments : \E keepsingleton \in BOOLEAN : \E freqmin \in Frequencies :
       \E o \in pairwiseR2(psc, keepsingleton, freqmin) :
          CalledLD("pairwiseR2", psc, keepsingleton, freqmin, o)

CallMeanD ==
  /\ stat.op = "none"
  /\ \E psc \in Alignments : \E keepsingleton \in BOOLEAN : \E freqmin \in Frequencies :
       \E o \in meanD(psc, keepsingleton, freqmin) :
          CalledLD("meanD", psc, keepsingleton, freqmin, o)

CallMeanR2 ==
  /\ stat.op = "none"
  /\ \E psc \in Alignments : \E keepsingleton \in BOOLEAN : \E freqmin \in Frequencies :
       \E o \in meanR2(psc, keepsingleton, freqmin) :
          CalledLD("meanR2", psc, keepsingleton, freqmin, o)

LDNext ==
  \/ CallPairwiseDistances1
  \/ CallPairwiseDistances2
  \/ CallMeanDistance1
  \/ CallMeanDistance2
  \/ CallPairwiseD
  \/ CallPairwiseDprime
  \/ CallPairwiseR2
  \/ CallMeanD
  \/ CallMeanR2

SpecLD == StatInit /\ [][LDNext]_statVars

\* The linkage-disequilibrium operations on distances, and those on pairs
\* of sites.
DistanceOps == {"pairwiseDistances1", "pairwiseDistances2", "meanDistance1", "meanDistance2"}

PairwiseOps == {"pairwiseD", "pairwiseDprime", "pairwiseR2", "meanD", "meanR2"}

\* The operations that return a vector.
VectorOps == {"pairwiseDistances1", "pairwiseDistances2", "pairwiseD", "pairwiseDprime",
              "pairwiseR2"}

\* The site qualifies for linkage disequilibrium: exactly two symbols, no
\* gap, each symbol carried more than once unless singletons are kept, and
\* each symbol with a frequency of at least freqmin.
Qualifies(site, keepsingleton, freqmin) ==
  /\ \E x, y \in {"A", "C", "G"} :
       /\ x # y
       /\ \A i \in 1..Len(site) : site[i] \in {x, y}
       /\ \E i, j \in 1..Len(site) : site[i] = x /\ site[j] = y
  /\ \A x \in {"A", "C", "G"} :
       LET carriers == {i \in 1..Len(site) : site[i] = x}
       IN  carriers # {} =>
             /\ keepsingleton \/ Cardinality(carriers) >= 2
             /\ Cardinality(carriers) * freqmin.d >= freqmin.n * Len(site)

\* The number of sites of the alignment of the call that qualify.
QualifyingSites ==
  Cardinality({i \in 1..Len(stat.psc.sites) :
                 Qualifies(stat.psc.sites[i], stat.keepsingleton, stat.freqmin)})

\* The call of the linkage-disequilibrium operation had too few sites or
\* sequences left.
TooFewLeft ==
  \/ stat.op \in DistanceOps /\ QualifyingSites < 2
  \/ stat.op \in PairwiseOps /\ (QualifyingSites < 2 \/ stat.psc.nseq < 2)

CallHudson87 ==
  /\ stat.op = "none"
  /\ \E cinf \in BracketValues, csup \in BracketValues, precision \in Precisions,
        greater \in Comparisons :
       stat' = [op |-> "hudson87", pc |-> "loop", cinf |-> cinf, csup |-> csup,
                precision |-> precision, greater |-> greater, value |-> 0]
  /\ UNCHANGED <<permVars, dsVars>>

BisectionTurn ==
  /\ stat.op = "hudson87"
  /\ stat.pc = "loop"
  /\ stat' = bisect(stat)
  /\ UNCHANGED <<permVars, dsVars>>

HudsonNext ==
  \/ CallHudson87
  \/ BisectionTurn

SpecHudson == StatInit /\ [][HudsonNext]_statVars /\ WF_statVars(HudsonNext)

\* C23: the bisection of hudson87 terminates for every input, also when the
\* compared function is not monotonic in the bracket.
C23_BisectionTerminates ==
  (stat.op = "hudson87") ~> (stat.op = "hudson87" /\ stat.pc = "done")

\* The bisection terminates when precision is more than the spacing of the
\* doubles of the bracket.
TerminatesAboveSpacing ==
  (stat.op = "hudson87" /\ stat.precision >= 2) ~> (stat.op = "hudson87" /\ stat.pc = "done")

(***************************************************************************)
(* mergeGroups on a DataSet that holds up to MaxStored groups, stored in   *)
(* any order of their ids, each individual in one group.                   *)
(***************************************************************************)
MaxStored == 3

\* The lists of groups a DataSet can hold after calls of addGroup.
StoredGroups ==
  {g \in UNION {[1..k -> [id : DataSetGroupIds, name : {<<>>}, inds : IndividualLists]] :
                  k \in 0..MaxStored} :
     /\ \A i, k \in 1..Len(g) : g[i].id = g[k].id => i = k
     /\ \A i, k \in 1..Len(g) : \A x \in 1..Len(g[i].inds) : \A y \in 1..Len(g[k].inds) :
          g[i].inds[x] = g[k].inds[y] => i = k}

MergeInit ==
  /\ dataset \in {[NoDataSet EXCEPT !.groups_ = g] : g \in StoredGroups}
  /\ call = NoCall
  /\ pmgc = <<>>
  /\ groups = {}
  /\ names = NoNames
  /\ op = "none"
  /\ res = NoResult
  /\ stat = NoStat

CallMergeGroupsOnce ==
  /\ call.op = "none"
  /\ \E group_ids \in SeqsUpTo(DataSetGroupIds, MaxStored) :
       \E o \in DataSet_mergeGroups(dataset, group_ids) :
          Recorded("mergeGroups", 0, 0, group_ids, o)

MergeNext == CallMergeGroupsOnce

SpecMerge == MergeInit /\ [][MergeNext]_dsVars

\* The ids of the vector.
IdsOf(list) == {list[i] : i \in 1..Len(list)}

\* The smallest of the ids, as unsigned integers.
SmallestId(ids) == CHOOSE m \in ids : \A x \in ids : ~ULess(x, m)

\* The individuals of the groups of ds whose id is in ids.
IndividualsOf(ds, ids) ==
  UNION {{ds.groups_[i].inds[x] : x \in 1..Len(ds.groups_[i].inds)} :
           i \in {k \in 1..Len(ds.groups_) : ds.groups_[k].id \in ids}}

\* The ids of the groups of ds.
GroupIdsOf(ds) == {ds.groups_[i].id : i \in 1..Len(ds.groups_)}

\* After mergeGroups(ids) on before, after holds the groups the claim says.
MergedInto(before, after, ids) ==
  /\ GroupIdsOf(after) = (GroupIdsOf(before) \ ids) \cup {SmallestId(ids)}
  /\ Len(after.groups_) = Cardinality(GroupIdsOf(after))
  /\ IndividualsOf(after, {SmallestId(ids)}) = IndividualsOf(before, ids)
  /\ \A id \in GroupIdsOf(before) \ ids :
       GroupOfId(after, id).inds = GroupOfId(before, id).inds

\* C24: mergeGroups(ids), when every id of ids names a group, merges into
\* the group with the smallest id: afterwards that group holds its own
\* individuals and those of every other listed group, the other listed
\* groups are gone and the unlisted groups are as they were, in whatever
\* order the groups are stored.
C24_MergeGroups ==
  [][(/\ call'.op = "mergeGroups"
      /\ call'.list # <<>>
      /\ IdsOf(call'.list) \subseteq GroupIdsOf(dataset)) =>
       /\ call'.raised = "none"
       /\ MergedInto(dataset, dataset', IdsOf(call'.list))]_dsVars

\* The same for a vector of distinct ids: the claim fails for the order of
\* storage alone.
MergeGroupsOfDistinctIds ==
  [][(/\ call'.op = "mergeGroups"
      /\ call'.list # <<>>
      /\ Cardinality(IdsOf(call'.list)) = Len(call'.list)
      /\ IdsOf(call'.list) \subseteq GroupIdsOf(dataset)) =>
       /\ call'.raised = "none"
       /\ MergedInto(dataset, dataset', IdsOf(call'.list))]_dsVars

\* The same when the group with the smallest id is stored before the other
\* listed groups: there the merge is as the claim says.
MergeGroupsSmallestFirst ==
  [][(/\ call'.op = "mergeGroups"
      /\ call'.list # <<>>
      /\ Cardinality(IdsOf(call'.list)) = Len(call'.list)
      /\ IdsOf(call'.list) \subseteq GroupIdsOf(dataset)
      /\ \A id \in IdsOf(call'.list) :
           Min(PositionsOfId(dataset, SmallestId(IdsOf(call'.list))))
             <= Min(PositionsOfId(dataset, id))) =>
       /\ call'.raised = "none"
       /\ MergedInto(dataset, dataset', IdsOf(call'.list))]_dsVars

\* The number of individuals of the DataSet.
RECURSIVE TotalIndividuals(_)
TotalIndividuals(g) ==
  IF g = <<>> THEN 0 ELSE Len(g[1].inds) + TotalIndividuals(Tail(g))

\* The largest of the ids, as unsigned integers.
LargestId(ids) == CHOOSE m \in ids : \A x \in ids : ~ULess(m, x)

\* The individuals at the positions of selection (counted from 0) in inds.
SelectedOf(inds, selection) == {inds[selection[i] + 1] : i \in 1..Len(selection)}

\* inds without the individuals at the positions of selection.
RECURSIVE WithoutSelected(_, _, _)
WithoutSelected(inds, selection, i) ==
  IF i > Len(inds) THEN <<>>
  ELSE (IF \E k \in 1..Len(selection) : selection[k] = i - 1 THEN <<>> ELSE <<inds[i]>>)
       \o WithoutSelected(inds, selection, i + 1)

\* The selection has distinct indices, all positions of individuals of the
\* group with the id, which the DataSet holds.
GoodSelection(ds, id, selection) ==
  /\ PositionsOfId(ds, id) # {}
  /\ \A i, k \in 1..Len(selection) : selection[i] = selection[k] => i = k
  /\ \A i \in 1..Len(selection) : selection[i] < Len(GroupOfId(ds, id).inds)

\* C25: splitGroup(group_id, selection), for distinct indices that are
\* positions of individuals of the group, moves exactly the individuals at
\* those positions into one new group whose id is the largest group id
\* plus one: the source loses exactly them, the new group holds exactly
\* them, and the DataSet has as many individuals as before.
C25_SplitGroupMoves ==
  [][(call'.op = "splitGroup" /\ GoodSelection(dataset, call'.id, call'.list)) =>
       /\ call'.raised = "none"
       /\ GroupIdsOf(dataset') =
            GroupIdsOf(dataset) \cup {UInc(LargestId(GroupIdsOf(dataset)))}
       /\ Len(dataset'.groups_) = Len(dataset.groups_) + 1
       /\ IndividualsOf(dataset', {UInc(LargestId(GroupIdsOf(dataset)))}) =
            SelectedOf(GroupOfId(dataset, call'.id).inds, call'.list)
       /\ GroupOfId(dataset', call'.id).inds =
            WithoutSelected(GroupOfId(dataset, call'.id).inds, call'.list, 1)
       /\ TotalIndividuals(dataset'.groups_) = TotalIndividuals(dataset.groups_)]_dsVars

\* The same for a selection that is not empty: no such call returns.
SplitGroupNeverMoves ==
  [][(/\ call'.op = "splitGroup"
      /\ call'.list # <<>>
      /\ call'.raised = "none") =>
       TotalIndividuals(dataset'.groups_) < TotalIndividuals(dataset.groups_)]_dsVars

\* C26: mergeTwoGroups(source_id, target_id) raises GroupNotFoundException
\* and changes nothing when one of the ids names no group; otherwise, for
\* two different ids, the source group is gone, the target group holds its
\* individuals followed by those of the source, there is one group less and
\* as many individuals as before.
C26_MergeTwoGroups ==
  [][call'.op = "mergeTwoGroups" =>
       /\ ({call'.id, call'.list[1]} \subseteq GroupIdsOf(dataset)) =>
            (call'.id # call'.list[1] =>
               /\ call'.raised = "none"
               /\ call'.id \notin GroupIdsOf(dataset')
               /\ GroupOfId(dataset', call'.list[1]).inds =
                    GroupOfId(dataset, call'.list[1]).inds \o GroupOfId(dataset, call'.id).inds
               /\ Len(dataset'.groups_) = Len(dataset.groups_) - 1
               /\ TotalIndividuals(dataset'.groups_) = TotalIndividuals(dataset.groups_))
       /\ ~({call'.id, call'.list[1]} \subseteq GroupIdsOf(dataset)) =>
            /\ call'.raised = "GroupNotFoundException"
            /\ dataset' = dataset]_dsVars

\* The same when no individual of the source has the id of an individual
\* of the target.
MergeTwoGroupsOfDisjointGroups ==
  [][call'.op = "mergeTwoGroups" =>
       /\ (/\ {call'.id, call'.list[1]} \subseteq GroupIdsOf(dataset)
           /\ call'.id # call'.list[1]
           /\ IndividualsOf(dataset, {call'.id}) \cap IndividualsOf(dataset, {call'.list[1]}) = {}) =>
               /\ call'.raised = "none"
               /\ call'.id \notin GroupIdsOf(dataset')
               /\ GroupOfId(dataset', call'.list[1]).inds =
                    GroupOfId(dataset, call'.list[1]).inds \o GroupOfId(dataset, call'.id).inds
               /\ Len(dataset'.groups_) = Len(dataset.groups_) - 1
               /\ TotalIndividuals(dataset'.groups_) = TotalIndividuals(dataset.groups_)
       /\ ~({call'.id, call'.list[1]} \subseteq GroupIdsOf(dataset)) =>
            /\ call'.raised = "GroupNotFoundException"
            /\ dataset' = dataset]_dsVars

(***************************************************************************)
(* Container extraction.  The individuals of the model: a and b carry a    *)
(* genotype, each its own; c carries none.  The container built is         *)
(* [recs, names]: its records [grp, gen] and its table of group names.     *)
(***************************************************************************)
ExtractedIndividualIds == {"a", "b", "c"}

\* Individual::getGenotype: the genotype of the individual, none for c.
getGenotype(individual) ==
  CASE individual = "a" -> <<MonoAlleleMonolocusGenotype(1)>>
    [] individual = "b" -> <<BiAlleleMonolocusGenotype(1, 2)>>
    [] OTHER -> NoGenotype

\* Individual::hasGenotype
hasGenotype(individual) == getGenotype(individual) # NoGenotype

\* new PolymorphismMultiGContainer()
NewContainer == [recs |-> <<>>, names |-> NoNames]

\* pmgc->addGroupName(group, name)
addGroupName(c, group, name) == [c EXCEPT !.names = (group :> name) @@ @]

\* The outcome of a call that returns the container c.
ReturnsContainer(ds, c) ==
  [ds |-> ds, raised |-> "none", name |-> <<>>, num |-> 0, container |-> c]

\* The outcome of a call that throws, no container being returned.
ThrowsNoContainer(ds, exception) ==
  [ds |-> ds, raised |-> exception, name |-> <<>>, num |-> 0, container |-> NewContainer]

\* Lines 1074-1080: the individuals of the group at position i, from the
\* j-th on (from 0), that have a genotype are added to the container with
\* group i.
RECURSIVE addGenotypesOfGroup(_, _, _, _)
addGenotypesOfGroup(ds, c, i, j) ==
  IF j >= Len(ds.groups_[i + 1].inds) THEN c
  ELSE addGenotypesOfGroup(ds,
         IF hasGenotype(ds.groups_[i + 1].inds[j + 1])
         THEN [c EXCEPT !.recs = Append(@, [grp |-> i, gen |-> getGenotype(ds.groups_[i + 1].inds[j + 1])])]
         ELSE c,
         i, j + 1)

\* Lines 1070-1081: the loop over the groups from position i on.
RECURSIVE addGenotypesOfGroups(_, _, _)
addGenotypesOfGroups(ds, c, i) ==
  IF i >= Len(ds.groups_) THEN c
  ELSE addGenotypesOfGroups(ds,
         addGenotypesOfGroup(ds, addGroupName(c, i, ds.groups_[i + 1].name), i, 0), i + 1)

\* DataSet::getPolymorphismMultiGContainer()
DataSet_getPolymorphismMultiGContainer(ds) ==
  {ReturnsContainer(ds, addGenotypesOfGroups(ds, NewContainer, 0))}

\* Lines 1100-1112: for j from 0 below the size of the vector of positions,
\* the individual at position j of the group at position i is added with
\* group i if it has a genotype; [raised, c].
RECURSIVE addSelectedGenotypes(_, _, _, _, _)
addSelectedGenotypes(ds, c, i, positions, j) ==
  IF j >= Len(positions) THEN [raised |-> "none", c |-> c]
  ELSE IF j >= Len(ds.groups_[i + 1].inds)
  THEN [raised |-> "IndexOutOfBoundsException", c |-> c]
  ELSE addSelectedGenotypes(ds,
         IF hasGenotype(ds.groups_[i + 1].inds[j + 1])
         THEN [c EXCEPT !.recs = Append(@, [grp |-> i, gen |-> getGenotype(ds.groups_[i + 1].inds[j + 1])])]
         ELSE c,
         i, positions, j + 1)

\* Lines 1090-1113: the loop over the entries of the map whose keys are in
\* todo, in the order of the keys.
RECURSIVE addSelection(_, _, _, _)
addSelection(ds, c, selection, todo) ==
  IF todo = {} THEN ReturnsContainer(ds, c)
  ELSE LET key == CHOOSE m \in todo : \A x \in todo : ~ULess(x, m)
           at == getGroupById(ds, key)
       IN  IF at = NULL THEN ThrowsNoContainer(ds, "GroupNotFoundException")
           ELSE LET added == addSelectedGenotypes(
                               ds, addGroupName(c, at[1], ds.groups_[at[1] + 1].name),
                               at[1], selection[key], 0)
                IN  IF added.raised # "none" THEN ThrowsNoContainer(ds, added.raised)
                    ELSE addSelection(ds, added.c, selection, todo \ {key})

\* DataSet::getPolymorphismMultiGContainer(selection)
DataSet_getSelectedContainer(ds, selection) ==
  {addSelection(ds, NewContainer, selection, DOMAIN selection)}

\* The lists of individuals of the groups the containers are built from.
ExtractedLists ==
  {v \in SeqsUpTo(ExtractedIndividualIds, 2) : \A i, k \in 1..Len(v) : v[i] = v[k] => i = k}

\* The lists of groups of the DataSets the containers are built from: ids
\* in any order, names set or not, each individual in one group.
ExtractedGroups ==
  {g \in UNION {[1..k -> [id : DataSetGroupIds, name : DataSetGroupNames,
                          inds : ExtractedLists]] : k \in 0..MaxSize} :
     /\ \A i, k \in 1..Len(g) : g[i].id = g[k].id => i = k
     /\ \A i, k \in 1..Len(g) : \A x \in 1..Len(g[i].inds) : \A y \in 1..Len(g[k].inds) :
          g[i].inds[x] = g[k].inds[y] => i = k}

\* The maps from group ids to vectors of positions handed to the call.
Selections ==
  UNION {[S -> SeqsUpTo(0..1, 2)] : S \in {T \in SUBSET DataSetGroupIds : Cardinality(T) <= 2}}

ContainerInit ==
  /\ dataset \in {[NoDataSet EXCEPT !.groups_ = g] : g \in ExtractedGroups}
  /\ call = NoCall
  /\ pmgc = <<>>
  /\ groups = {}
  /\ names = NoNames
  /\ op = "none"
  /\ res = NoResult
  /\ stat = NoStat

\* The call fn, given the map selection, had outcome o.
RecordedContainer(fn, selection, o) ==
  /\ dataset' = o.ds
  /\ call' = [op |-> fn, id |-> 0, pos |-> 0, list |-> <<>>, raised |-> o.raised,
              name |-> o.name, num |-> o.num, selection |-> selection,
              container |-> o.container]
  /\ UNCHANGED <<permVars, stat>>

CallGetPolymorphismMultiGContainer ==
  /\ call.op = "none"
  /\ \E o \in DataSet_getPolymorphismMultiGContainer(dataset) :
       RecordedContainer("getPolymorphismMultiGContainer", <<>>, o)

CallGetSelectedContainer ==
  /\ call.op = "none"
  /\ \E selection \in Selections :
       \E o \in DataSet_getSelectedContainer(dataset, selection) :
          RecordedContainer("getPolymorphismMultiGContainer(selection)", selection, o)

ContainerNext ==
  \/ CallGetPolymorphismMultiGContainer
  \/ CallGetSelectedContainer

SpecContainer == ContainerInit /\ [][ContainerNext]_dsVars

\* The selection names groups of the DataSet only, and for each of them
\* distinct positions of individuals of the group.
ValidSelection(ds, selection) ==
  /\ DOMAIN selection \subseteq GroupIdsOf(ds)
  /\ \A id \in DOMAIN selection :
       /\ \A i, k \in 1..Len(selection[id]) : selection[id][i] = selection[id][k] => i = k
       /\ \A i \in 1..Len(selection[id]) : selection[id][i] < Len(GroupOfId(ds, id).inds)

\* The individuals the selection lists: those at the listed positions of
\* the selected groups.
ListedIndividuals(ds, selection) ==
  UNION {{GroupOfId(ds, id).inds[selection[id][i] + 1] : i \in 1..Len(selection[id])} :
           id \in DOMAIN selection}

\* The individuals whose genotype the container holds in n records.
HoldsTimes(c, individual, n) ==
  Cardinality({r \in 1..Len(c.recs) : c.recs[r].gen = getGenotype(individual)}) = n

\* C27: getPolymorphismMultiGContainer(selection) returns a collection that
\* holds the genotype of every individual at a listed position of a
\* selected group that has a genotype, once, and no genotype of any other
\* individual.
C27_SelectedGenotypes ==
  [][(/\ call'.op = "getPolymorphismMultiGContainer(selection)"
      /\ ValidSelection(dataset, call'.selection)) =>
       /\ call'.raised = "none"
       /\ \A individual \in {x \in ExtractedIndividualIds : hasGenotype(x)} :
            HoldsTimes(call'.container, individual,
                       IF individual \in ListedIndividuals(dataset, call'.selection)
                       THEN 1 ELSE 0)]_dsVars

\* The group of the DataSet that holds the individual.
GroupsHolding(ds, individual) ==
  {i \in 1..Len(ds.groups_) :
     \E x \in 1..Len(ds.groups_[i].inds) : ds.groups_[i].inds[x] = individual}

\* C28: in the collection getPolymorphismMultiGContainer returns (both
\* overloads), every record carries the id of the group of the DataSet its
\* individual belongs to, and the name registered for that id is the name
\* of that group.
C28_RecordGroupIds ==
  [][(/\ call'.op \in {"getPolymorphismMultiGContainer",
                       "getPolymorphismMultiGContainer(selection)"}
      /\ call'.raised = "none") =>
       \A r \in 1..Len(call'.container.recs) :
         \A individual \in {x \in ExtractedIndividualIds : hasGenotype(x)} :
           call'.container.recs[r].gen = getGenotype(individual) =>
             \E i \in GroupsHolding(dataset, individual) :
               /\ call'.container.recs[r].grp = dataset.groups_[i].id
               /\ dataset.groups_[i].id \in DOMAIN call'.container.names
               /\ call'.container.names[dataset.groups_[i].id] = dataset.groups_[i].name]_dsVars

\* The same for the DataSets whose groups have their positions as ids:
\* there the ids and the names are as the claim says.
RecordGroupIdsWhenIdIsPosition ==
  [][(/\ call'.op \in {"getPolymorphismMultiGContainer",
                       "getPolymorphismMultiGContainer(selection)"}
      /\ call'.raised = "none"
      /\ \A i \in 1..Len(dataset.groups_) : dataset.groups_[i].id = i - 1) =>
       \A r \in 1..Len(call'.container.recs) :
         \A individual \in {x \in ExtractedIndividualIds : hasGenotype(x)} :
           call'.container.recs[r].gen = getGenotype(individual) =>
             \E i \in GroupsHolding(dataset, individual) :
               /\ call'.container.recs[r].grp = dataset.groups_[i].id
               /\ dataset.groups_[i].id \in DOMAIN call'.container.names
               /\ call'.container.names[dataset.groups_[i].id] = dataset.groups_[i].name]_dsVars

\* The same as C27 for the selections that list, for each group, the
\* positions 0, 1, ... in this order: there the genotypes are those listed.
SelectedGenotypesOfLeadingPositions ==
  [][(/\ call'.op = "getPolymorphismMultiGContainer(selection)"
      /\ ValidSelection(dataset, call'.selection)
      /\ \A id \in DOMAIN call'.selection :
           \A i \in 1..Len(call'.selection[id]) : call'.selection[id][i] = i - 1) =>
       /\ call'.raised = "none"
       /\ \A individual \in {x \in ExtractedIndividualIds : hasGenotype(x)} :
            HoldsTimes(call'.container, individual,
                       IF individual \in ListedIndividuals(dataset, call'.selection)
                       THEN 1 ELSE 0)]_dsVars

(***************************************************************************)
(* The assignment and the copy of a DataSet: a = b, a = a and DataSet(b),  *)
(* a the DataSet of the state and b drawn from AssignedDataSets.           *)
(***************************************************************************)
AssignedGroups ==
  {g \in UNION {[1..k -> [id : DataSetGroupIds, name : DataSetGroupNames, inds : {<<>>}]] :
                  k \in 0..MaxSize} :
     \A i, k \in 1..Len(g) : g[i].id = g[k].id => i = k}

AssignedDataSets ==
  {[NoDataSet EXCEPT !.groups_ = g, !.localities_ = l, !.analyzedLoci_ = p] :
     g \in AssignedGroups, l \in SeqsUpTo(LocalityNames, 1),
     p \in {NoAnalyzedLoci, AnalyzedLoci(1)}}

AssignInit ==
  /\ dataset \in AssignedDataSets
  /\ call = NoCall
  /\ pmgc = <<>>
  /\ groups = {}
  /\ names = NoNames
  /\ op = "none"
  /\ res = NoResult
  /\ stat = NoStat

\* The call fn, given the DataSet other, had outcome o.
RecordedAssign(fn, other, o) ==
  /\ dataset' = o.ds
  /\ call' = [op |-> fn, id |-> 0, pos |-> 0, list |-> <<>>, raised |-> o.raised,
              name |-> o.name, num |-> o.num, other |-> other]
  /\ UNCHANGED <<permVars, stat>>

\* a = b
CallAssign ==
  /\ call.op = "none"
  /\ \E b \in AssignedDataSets :
       \E o \in DataSet_assign(dataset, b) : RecordedAssign("operator=", b, o)

\* a = a
CallAssignSelf ==
  /\ call.op = "none"
  /\ \E o \in DataSet_assignSelf(dataset) : RecordedAssign("operator=", dataset, o)

\* DataSet a(b), a taking the place of the DataSet of the state.
CallCopy ==
  /\ call.op = "none"
  /\ \E b \in AssignedDataSets :
       \E o \in DataSet_copy(b) : RecordedAssign("DataSet", b, o)

AssignNext ==
  \/ CallAssign
  \/ CallAssignSelf
  \/ CallCopy

SpecAssign == AssignInit /\ [][AssignNext]_dsVars

\* a holds as many groups and localities as b, with the group ids of b in
\* the order of b.
SameGroupsAndLocalities(a, b) ==
  /\ Len(a.groups_) = Len(b.groups_)
  /\ Len(a.localities_) = Len(b.localities_)
  /\ \A i \in 1..Len(b.groups_) : a.groups_[i].id = b.groups_[i].id

\* No two groups of ds have the same id.
UniqueIds(ds) ==
  \A i, k \in 1..Len(ds.groups_) : ds.groups_[i].id = ds.groups_[k].id => i = k

\* C29: after the assignment a = b, whatever a held before and also when b
\* is a itself, a holds as many groups and localities as b, with the same
\* group ids in the same order, and no two groups of a have the same id.
C29_AssignmentReplaces ==
  [][call'.op = "operator=" =>
       /\ call'.raised = "none"
       /\ SameGroupsAndLocalities(dataset', call'.other)
       /\ UniqueIds(dataset')]_dsVars

\* The same for an a that holds no group and no locality before the
\* assignment, and for the copy DataSet(b): there the claim holds.
AssignmentToEmpty ==
  [][(\/ call'.op = "DataSet"
      \/ call'.op = "operator=" /\ dataset.groups_ = <<>> /\ dataset.localities_ = <<>>) =>
       /\ call'.raised = "none"
       /\ SameGroupsAndLocalities(dataset', call'.other)
       /\ UniqueIds(dataset')]_dsVars

(***************************************************************************)
(* The analyzed loci of a DataSet: from the DataSet as constructed, any    *)
(* sequence of calls of the member functions that set, delete and read     *)
(* analyzedLoci_.  pos records the number of loci the call was given.      *)
(***************************************************************************)
CallInitAnalyzedLoci ==
  /\ Alive
  /\ \E number_of_loci \in NumbersOfLoci :
       \E o \in DataSet_initAnalyzedLoci(dataset, number_of_loci) :
          Recorded("initAnalyzedLoci", 0, number_of_loci, <<>>, o)

CallSetAnalyzedLoci ==
  /\ Alive
  /\ \E analyzedLoci \in NumbersOfLoci :
       \E o \in DataSet_setAnalyzedLoci(dataset, analyzedLoci) :
          Recorded("setAnalyzedLoci", 0, analyzedLoci, <<>>, o)

CallDeleteAnalyzedLoci ==
  /\ Alive
  /\ \E o \in DataSet_deleteAnalyzedLoci(dataset) :
       Recorded("deleteAnalyzedLoci", 0, 0, <<>>, o)

CallGetAnalyzedLoci ==
  /\ Alive
  /\ \E o \in DataSet_getAnalyzedLoci(dataset) : Recorded("getAnalyzedLoci", 0, 0, <<>>, o)

CallGetNumberOfLoci ==
  /\ Alive
  /\ \E o \in DataSet_getNumberOfLoci(dataset) : Recorded("getNumberOfLoci", 0, 0, <<>>, o)

CallHasAlleleicData ==
  /\ Alive
  /\ \E o \in DataSet_hasAlleleicData(dataset) : Recorded("hasAlleleicData", 0, 0, <<>>, o)

LociNext ==
  \/ CallInitAnalyzedLoci
  \/ CallSetAnalyzedLoci
  \/ CallDeleteAnalyzedLoci
  \/ CallGetAnalyzedLoci
  \/ CallGetNumberOfLoci
  \/ CallHasAlleleicData

SpecLoci == DataSetInit /\ [][LociNext]_dsVars

\* The call of the step reads or deletes an AnalyzedLoci that was deleted.
UsesDeletedLoci ==
  /\ dataset.analyzedLoci_.at = "deleted"
  /\ call'.op \in {"getNumberOfLoci", "deleteAnalyzedLoci", "setAnalyzedLoci"}

\* C30: right after deleteAnalyzedLoci, hasAlleleicData() is false,
\* getNumberOfLoci() raises NullPointerException and initAnalyzedLoci
\* succeeds; initAnalyzedLoci on a DataSet that has analyzed loci raises an
\* Exception and leaves them unchanged; no call reads analyzed loci that
\* were deleted.
C30_AnalyzedLociLifecycle ==
  [][/\ (call.op = "deleteAnalyzedLoci" /\ call'.op = "hasAlleleicData") => call'.num = 0
     /\ (call.op = "deleteAnalyzedLoci" /\ call'.op = "getNumberOfLoci") =>
          call'.raised = "NullPointerException"
     /\ (call.op = "deleteAnalyzedLoci" /\ call'.op = "initAnalyzedLoci") =>
          (call'.raised = "none" /\ dataset'.analyzedLoci_ = AnalyzedLoci(call'.pos))
     /\ (call.op \in {"initAnalyzedLoci", "setAnalyzedLoci"} /\ call.raised = "none"
           /\ call'.op = "initAnalyzedLoci") =>
          (call'.raised = "Exception" /\ dataset' = dataset)
     /\ ~UsesDeletedLoci]_dsVars

\* The part of C30 on a DataSet whose analyzed loci were set and not
\* deleted: there initAnalyzedLoci raises an Exception and leaves them
\* unchanged, and the reads give their number of loci.
LifecycleBeforeDelete ==
  [][dataset.analyzedLoci_.at = "object" =>
       /\ call'.op = "initAnalyzedLoci" => (call'.raised = "Exception" /\ dataset' = dataset)
       /\ call'.op = "hasAlleleicData" => call'.num = 1
       /\ call'.op = "getNumberOfLoci" =>
            (call'.raised = "none" /\ call'.num = dataset.analyzedLoci_.loci)
       /\ call'.op = "setAnalyzedLoci" =>
            (call'.raised = "none" /\ dataset'.analyzedLoci_ = AnalyzedLoci(call'.pos))]_dsVars

=============================================================================
